---- MODULE Spec2Model ----
(***************************************************************************)
(* A model of the Temporal/OpenTelemetry "Hello World" demo application.   *)
(*                                                                         *)
(* The repository holds several drifting copies of the same programs: two  *)
(* telemetry utility modules (signozTelemetryUtils.ts, first and second    *)
(* half), two telemetry bootstraps (opentelemetryConfig.ts and its earlier *)
(* copy), seven worker entry points and four client entry points.  One     *)
(* behaviour of the model is one run of one Node.js process: Init picks    *)
(* the entry point, the telemetry variant it is linked with and the        *)
(* environment, and the actions are the synchronous segments (the code     *)
(* between two awaits) of run(), of the process event handlers and of the  *)
(* telemetry utilities, together with the steps of the environment         *)
(* (promises of the SDKs settling, timers firing, signals arriving).       *)
(***************************************************************************)
EXTENDS Integers, Sequences, FiniteSets, TLC

VARIABLES
    cfg,             \* [entry, tel, host, cert, key]: what runs, and process.env
    mainPc,          \* position of run()
    mainCall,        \* index in races of the promise run() awaits (0: none)
    handlers,        \* invocations of process event listeners: [fn, pc, call]
    listeners,       \* registered process listeners, in order: [ev, fn, once]
    exit,            \* [exited, code, calls]: how the process ended
    events,          \* number of signals and errors the environment delivered
    signalled,       \* a SIGINT or SIGTERM was delivered
    sdkInstance,     \* signozTelemetryUtils: let sdkInstance
    tracerInstance,  \* signozTelemetryUtils: let tracerInstance (0: null)
    meterInstance,   \* signozTelemetryUtils: let meterInstance (0: null)
    initialized,     \* signozTelemetryUtils: let initialized
    created,         \* [tracers, meters]: handles handed out by the API
    sdkState,        \* lifecycle of the NodeSDK object
    races,           \* pending and settled sdk.shutdown() promises and their timers
    worker,          \* [state, ref]: the Temporal Worker and the variable holding it
    isShuttingDown,  \* hello world worker: let isShuttingDown
    dashboardMetrics, \* the timers of registerDashboardMetrics
    trace,           \* the externally visible calls made so far, in order
    call,            \* a library function applied once: [fn, arg, ret]
    wf,              \* one workflow execution: [kind, pc, fails, log, value, out]
    metrics,         \* workflowMetricsUtil and the meter's instruments
    timers           \* setTimeout/setInterval handles of registerDashboardMetrics

taskVars  == <<mainPc, mainCall, handlers>>
nodeVars  == <<listeners, exit, events, signalled>>
utilsVars == <<sdkInstance, tracerInstance, meterInstance, initialized, created>>
sdkVars   == <<sdkState, races>>
workVars  == <<worker, isShuttingDown, dashboardMetrics>>
libVars   == <<call, wf, metrics, timers>>
vars == <<cfg, mainPc, mainCall, handlers, listeners, exit, events, signalled,
          sdkInstance, tracerInstance, meterInstance, initialized, created,
          sdkState, races, worker, isShuttingDown, dashboardMetrics,
          trace, call, wf, metrics, timers>>

----------------------------------------------------------------------------
(* Bounds of the model.                                                    *)

\* Calls an outside caller makes to the telemetry utilities (SpecTelemetry).
MaxCalls == 3

\* Signals and asynchronous errors the environment delivers to one process.
MaxEvents == 2

----------------------------------------------------------------------------
(* Program constants.                                                      *)

ForceExportTimeoutA == 5000
ForceExportTimeoutB == 3000
HandlerTimeout == 5000

NULL == "null"
SDK  == "sdk"

TelVariants == {"A", "B"}

\* The timeout forceSpanExport races sdk.shutdown() against.
ForceExportTimeout(tel) ==
    IF tel = "A" THEN ForceExportTimeoutA ELSE ForceExportTimeoutB

\* No library function has been applied, no workflow runs, the metrics
\* module is as loaded: the state of these parts in a run that does not
\* look at them.
NoCall == [fn |-> "none", arg |-> <<>>, ret |-> <<>>]
\* No call has settled, nothing was returned or thrown.
NoOutcome == [ok |-> FALSE, value |-> <<>>, error |-> "none"]

\* No workflow runs.
NoWf == [pc |-> "none", name |-> <<>>, arg |-> <<>>, log |-> <<>>,
         settled |-> NoOutcome, out |-> NoOutcome, seen |-> NoOutcome]
\* The counters of the workflow metrics, by instrument name.
CounterNames ==
    {"workflow_success", "workflow_failed", "workflow_timeout",
     "workflow_terminate", "workflow_cancel", "service_requests",
     "service_errors", "service_error_with_type", "restarts",
     "schedule_to_start_timeout", "start_to_close_timeout"}

\* The metrics module as loaded: no counter reference, not initialised.
\* values are the sums the meter's instruments have accumulated; calls and
\* last record the calls made to the module, inits the times the counters
\* were created.
NoMetrics ==
    [initialized |-> FALSE, refs |-> {},
     values |-> [c \in CounterNames |-> 0],
     calls |-> 0, last |-> [fn |-> "none", errorType |-> "undefined"],
     inits |-> 0]

\* No dashboard registration yet.  set holds the timers created, each
\* [kind, reg, state] with reg the registration that created it;
\* initialTimer and interval are globalThis.__dashboardMetricsInitialTimer
\* and globalThis.__dashboardMetricsInterval (0: not set); stopped the
\* registrations whose stop function was called; emits the calls of
\* emitPeriodicMetrics, each with the registration whose timer made it and
\* whether that registration had been stopped.
NoTimers ==
    [set |-> <<>>, initialTimer |-> 0, interval |-> 0,
     registrations |-> 0, stopped |-> {}, emits |-> <<>>]
NoLibrary == call = NoCall /\ wf = NoWf /\ metrics = NoMetrics /\ timers = NoTimers

----------------------------------------------------------------------------
(* Scheduling of the event loop.                                           *)

\* A handler that was just invoked and has not run its first segment:
\* emit() runs the listeners synchronously, before anything else.
Fresh == {i \in DOMAIN handlers : handlers[i].pc = "start"}

\* The races some task awaits.
Awaited ==
    {c \in DOMAIN races :
        \/ mainCall = c
        \/ \E i \in DOMAIN handlers : handlers[i].call = c}

\* The awaited races that are decided: the continuations of their awaits
\* are in the microtask queue and run before the event loop goes on.
Runnable == {c \in Awaited : races[c].result # "pending"}

\* Between two macrotasks: no listener waits to be run, no continuation is
\* queued, and run() is not in a chain of already-settled promises.
Idle ==
    /\ Fresh = {}
    /\ Runnable = {}
    /\ mainPc \notin {"afterInit", "rejected"}

\* The event loop may run the next macrotask.
Ready == ~exit.exited /\ Idle

\* The i-th handler invocation is the next listener emit() runs.
NextFresh(i) == ~exit.exited /\ i \in Fresh /\ \A j \in Fresh : i <= j

\* The await of race c is the next continuation to run.
Resumes(c) ==
    /\ ~exit.exited
    /\ Fresh = {}
    /\ c \in Runnable
    /\ \A d \in Runnable : c <= d

----------------------------------------------------------------------------
(* The NodeSDK object and the promises of its shutdown().                  *)

\* sdk.shutdown() is invoked: the providers start shutting down, whatever
\* state the SDK was in.  They shut down once: a call made while a
\* shutdown is in progress, or after it, gets the outcome of that shutdown.
SdkShutdownInvoked(s) ==
    IF s \in {"stopped", "shutdownFailed"} THEN s ELSE "shuttingDown"

\* Promise.race([...]): the first promise that settles decides the result.
Race(result, outcome) == IF result = "pending" THEN outcome ELSE result

\* What forceSpanExport's shutdownPromise resolves with when sdk.shutdown()
\* rejects, had the .catch been left out.
ExportOutcomeNoCatch(ok) == IF ok THEN "true" ELSE "rejected"

\* shutdownPromise: .then(() => true).catch(err => false).
ExportOutcome(ok) == IF ok THEN "true" ELSE "false"

\* The handlers' race: await Promise.race([sdk.shutdown(), timeout-reject]).
HandlerOutcome(ok) == IF ok THEN "resolved" ELSE "rejected"

\* The race record forceSpanExport creates.  Without a stored SDK it returns
\* false at once; otherwise it arms the timer and calls sdk.shutdown().
NewExportRace ==
    IF sdkInstance = NULL
    THEN [fn |-> "forceSpanExport", sd |-> "none", timer |-> "none",
          result |-> "false", delay |-> 0, first |-> "none"]
    ELSE [fn |-> "forceSpanExport", sd |-> "pending", timer |-> "armed",
          result |-> "pending", delay |-> ForceExportTimeout(cfg.tel),
          first |-> "none"]

\* The race of registerShutdownHandler's handlers: the timer rejects.
NewHandlerRace ==
    [fn |-> "shutdownHandler", sd |-> "pending", timer |-> "armed",
     result |-> "pending", delay |-> HandlerTimeout, first |-> "none"]

\* shutdownTelemetry awaits sdk.shutdown() with no timer.
NewShutdownTelemetry ==
    [fn |-> "shutdownTelemetry", sd |-> "pending", timer |-> "none",
     result |-> "pending", delay |-> 0, first |-> "none"]

\* finally { await otelSdk.shutdown() }: no timer.
NewFinallyShutdown ==
    [fn |-> "finally", sd |-> "pending", timer |-> "none",
     result |-> "pending", delay |-> 0, first |-> "none"]

\* One entry of the trace: who made the call, the call, its argument.
Ev(by, ev, arg) == [by |-> by, ev |-> ev, arg |-> arg]

\* The calls forceSpanExport makes when called by `by`, appended to tr.
ForceTrace(tr, by) ==
    tr \o <<Ev(by, "forceSpanExport", "")>>
       \o (IF sdkInstance = NULL THEN <<>>
           ELSE <<Ev("forceSpanExport", "sdk.shutdown", "")>>)

\* forceSpanExport() is called: the part that changes races and the SDK.
ForceSpanExportCall ==
    /\ races' = Append(races, NewExportRace)
    /\ sdkState' = IF sdkInstance = NULL THEN sdkState
                   ELSE SdkShutdownInvoked(sdkState)

ShutdownOutcomeRethrown(fn, ok) ==
    CASE fn = "forceSpanExport" -> ExportOutcome(ok)
      [] fn \in {"shutdownHandler", "finally"} -> HandlerOutcome(ok)
      [] OTHER -> IF ok THEN "resolved" ELSE "rejected"

\* The outcome a settled sdk.shutdown() gives the race of kind fn.
ShutdownOutcome(fn, ok) ==
    CASE fn = "forceSpanExport" -> ExportOutcome(ok)
      [] fn \in {"shutdownHandler", "finally"} -> HandlerOutcome(ok)
      [] OTHER -> IF ok THEN "resolved" ELSE "swallowed"

\* The callback run when the shutdown promise resolves clears the
\* module's handles: in forceSpanExport of the first utilities module
\* and in shutdownTelemetry; the second module keeps them.
ResetsInstances(fn) ==
    \/ fn = "shutdownTelemetry"
    \/ fn = "forceSpanExport" /\ cfg.tel = "A"

\* A timer that fires after its race was decided changes nothing the
\* program can see: in a process the model leaves it out; for the
\* utilities called from outside it keeps it.
Observed(i) == races[i].result = "pending" \/ cfg.entry = "utilities"

\* The timer of the j-th race is armed and still matters.  Timers fire in
\* the order of their deadlines: one armed earlier with a delay that is not
\* longer fires first.
Due(j) == races[j].timer = "armed" /\ Observed(j)

\* The race r after the promise of its sdk.shutdown() settled.
Settled(r, ok) ==
    [r EXCEPT !.sd = IF ok THEN "resolved" ELSE "rejected",
              !.result = Race(@, ShutdownOutcome(r.fn, ok)),
              !.first = IF @ = "none" THEN "shutdown" ELSE @]

\* The shutdown of the SDK completes or fails, and with it every pending
\* promise of sdk.shutdown(); the callbacks chained on them run.
SdkShutdownSettles(ok) ==
    /\ Ready
    /\ \E i \in DOMAIN races : races[i].sd = "pending"
    /\ \/ sdkState \notin {"stopped", "shutdownFailed"}
       \/ sdkState = "stopped" /\ ok
       \/ sdkState = "shutdownFailed" /\ ~ok
    /\ races' = [i \in DOMAIN races |->
                   IF races[i].sd = "pending"
                   THEN Settled(races[i], ok) ELSE races[i]]
    /\ sdkState' = IF ok THEN "stopped" ELSE "shutdownFailed"
    /\ IF ok /\ \E i \in DOMAIN races :
                   races[i].sd = "pending" /\ ResetsInstances(races[i].fn)
       THEN /\ sdkInstance' = NULL
            /\ tracerInstance' = 0
            /\ meterInstance' = 0
            /\ initialized' = FALSE
       ELSE UNCHANGED <<sdkInstance, tracerInstance, meterInstance, initialized>>
    /\ UNCHANGED <<cfg, libVars, taskVars, nodeVars, created, workVars, trace>>

\* The timer of the i-th race fires: setTimeout(..., delay).
TimeoutFires(i) ==
    /\ Ready
    /\ races[i].timer = "armed"
    /\ Observed(i)
    /\ ~\E j \in 1..(i - 1) : Due(j) /\ races[j].delay <= races[i].delay
    /\ races' = [races EXCEPT
                   ![i].timer = "fired",
                   ![i].result = Race(@, IF races[i].fn = "forceSpanExport"
                                         THEN "false" ELSE "rejected"),
                   ![i].first = IF @ = "none" THEN "timer" ELSE @]
    /\ UNCHANGED <<cfg, libVars, taskVars, nodeVars, utilsVars, sdkState, workVars, trace>>

----------------------------------------------------------------------------
(* The telemetry utilities called from outside, in any order.              *)

Count(tr, e) == Cardinality({i \in DOMAIN tr : tr[i].ev = e})

Calls == Cardinality({i \in DOMAIN trace : trace[i].by = "caller"})

InitTelemetry ==
    /\ cfg \in [entry : {"utilities"}, tel : TelVariants,
                host : {FALSE}, cert : {FALSE}, key : {FALSE}]
    /\ mainPc = "none"
    /\ mainCall = 0
    /\ handlers = <<>>
    /\ listeners = <<>>
    /\ exit = [exited |-> FALSE, code |-> 0, calls |-> 0]
    /\ events = 0
    /\ signalled = FALSE
    /\ sdkInstance = NULL
    /\ tracerInstance = 0
    /\ meterInstance = 0
    /\ initialized = FALSE
    /\ created = [tracers |-> 0, meters |-> 0]
    /\ sdkState = "running"
    /\ races = <<>>
    /\ worker = [state |-> "none", ref |-> FALSE, runtime |-> FALSE]
    /\ isShuttingDown = FALSE
    /\ dashboardMetrics = "none"
    /\ trace = <<>>
    /\ NoLibrary

\* setSDK(sdk) / setOpenTelemetrySdk(sdk).
setSDK ==
    /\ Count(trace, "setSDK") < 1
    /\ sdkInstance' = SDK
    /\ trace' = Append(trace, Ev("caller", "setSDK", ""))
    /\ UNCHANGED <<cfg, libVars, taskVars, nodeVars, tracerInstance, meterInstance,
                   initialized, created, sdkVars, workVars>>

\* The body of getTracer(): the cached handle, created on the first call.
GetTracerCall ==
    IF tracerInstance = 0
    THEN /\ tracerInstance' = created.tracers + 1
         /\ created' = [created EXCEPT !.tracers = @ + 1]
    ELSE UNCHANGED <<tracerInstance, created>>

\* getTracer() and getMeter() called one after the other.
GetHandles ==
    /\ tracerInstance' = IF tracerInstance = 0 THEN created.tracers + 1
                         ELSE tracerInstance
    /\ meterInstance' = IF meterInstance = 0 THEN created.meters + 1
                        ELSE meterInstance
    /\ created' = [tracers |-> IF tracerInstance = 0 THEN created.tracers + 1
                               ELSE created.tracers,
                   meters |-> IF meterInstance = 0 THEN created.meters + 1
                              ELSE created.meters]

\* getTracer() called by an outside caller.
getTracer ==
    /\ Calls < MaxCalls
    /\ GetTracerCall
    /\ trace' = Append(trace, Ev("caller", "getTracer", ""))
    /\ UNCHANGED <<cfg, libVars, taskVars, nodeVars, sdkInstance, meterInstance,
                   initialized, sdkVars, workVars>>

\* getMeter() called by an outside caller.
getMeter ==
    /\ Calls < MaxCalls
    /\ meterInstance' = IF meterInstance = 0 THEN created.meters + 1
                        ELSE meterInstance
    /\ created' = IF meterInstance = 0
                  THEN [created EXCEPT !.meters = @ + 1] ELSE created
    /\ trace' = Append(trace, Ev("caller", "getMeter", ""))
    /\ UNCHANGED <<cfg, libVars, taskVars, nodeVars, sdkInstance, tracerInstance,
                   initialized, sdkVars, workVars>>

\* initializeTelemetry(): once; caches a tracer and a meter.
initializeTelemetry ==
    /\ cfg.tel = "A"
    /\ Calls < MaxCalls
    /\ IF initialized
       THEN UNCHANGED <<tracerInstance, meterInstance, initialized, created>>
       ELSE /\ tracerInstance' = IF tracerInstance = 0
                                 THEN created.tracers + 1 ELSE tracerInstance
            /\ meterInstance' = IF meterInstance = 0
                                THEN created.meters + 1 ELSE meterInstance
            /\ created' = [tracers |-> IF tracerInstance = 0
                                       THEN created.tracers + 1
                                       ELSE created.tracers,
                           meters |-> IF meterInstance = 0
                                      THEN created.meters + 1
                                      ELSE created.meters]
            /\ initialized' = TRUE
    /\ trace' = Append(trace, Ev("caller", "initializeTelemetry", ""))
    /\ UNCHANGED <<cfg, libVars, taskVars, nodeVars, sdkInstance, sdkVars, workVars>>

\* shutdownTelemetry(): nothing without a stored SDK, else awaits
\* sdk.shutdown(); the reset or the swallowed error follow when it settles.
shutdownTelemetry ==
    /\ cfg.tel = "A"
    /\ Calls < MaxCalls
    /\ IF sdkInstance = NULL
       THEN /\ trace' = Append(trace, Ev("caller", "shutdownTelemetry", ""))
            /\ UNCHANGED sdkVars
       ELSE /\ races' = Append(races, NewShutdownTelemetry)
            /\ sdkState' = SdkShutdownInvoked(sdkState)
            /\ trace' = trace \o <<Ev("caller", "shutdownTelemetry", ""),
                                     Ev("shutdownTelemetry", "sdk.shutdown", "")>>
    /\ UNCHANGED <<cfg, libVars, taskVars, nodeVars, utilsVars, workVars>>

\* forceSpanExport() called by an outside caller.
forceSpanExport ==
    /\ Calls < MaxCalls
    /\ ForceSpanExportCall
    /\ trace' = ForceTrace(trace, "caller")
    /\ UNCHANGED <<cfg, libVars, taskVars, nodeVars, utilsVars, workVars>>

NextTelemetry ==
    \/ setSDK
    \/ getTracer
    \/ getMeter
    \/ initializeTelemetry
    \/ shutdownTelemetry
    \/ forceSpanExport
    \/ \E ok \in BOOLEAN : SdkShutdownSettles(ok)
    \/ \E i \in DOMAIN races : TimeoutFires(i)

SpecTelemetry == InitTelemetry /\ [][NextTelemetry]_vars

----------------------------------------------------------------------------
(* One Node.js process running one entry point.                            *)

\* The worker entry points.
WorkerSignoz       == "worker.ts#1"
WorkerDashboardTls == "worker.ts#2"
WorkerMain         == "helloWorldWorker"
WorkerBasic        == "part_007#1"
WorkerInstr        == "part_007#2"
WorkerDashboard    == "part_006"
WorkerTls          == "helloWorldStarter.ts#2"

\* The client entry points.
Starter         == "helloWorldStarter.ts#1"
ClientDashboard == "client.ts"
ClientInstr     == "part_011#1"
ClientSignoz    == "part_011#2"

Workers == {WorkerSignoz, WorkerDashboardTls, WorkerMain, WorkerBasic,
            WorkerInstr, WorkerDashboard, WorkerTls}
Clients == {Starter, ClientDashboard, ClientInstr, ClientSignoz}

\* The entry points whose run() begins with await initOpenTelemetry(...).
UsesInitOpenTelemetry ==
    {WorkerSignoz, WorkerDashboardTls, WorkerMain, WorkerDashboard,
     Starter, ClientDashboard, ClientSignoz}

\* The entry points that call run().catch(err => process.exit(1)); the
\* others call run() and drop the promise.
HasRunCatch ==
    {WorkerDashboardTls, WorkerMain, WorkerDashboard, Starter, ClientDashboard}

\* TEMPORAL_HOST_URL is set and TEMPORAL_TLS_CERT or TEMPORAL_TLS_KEY is not:
\* the condition of the entry points' "must be set" throw.
TlsMissing == cfg.host /\ (~cfg.cert \/ ~cfg.key)

\* The listeners registered while the module is loaded, before run().
ModuleListeners(entry) ==
    IF entry = WorkerMain
    THEN <<[ev |-> "SIGINT", fn |-> "shutdown", once |-> FALSE],
           [ev |-> "SIGTERM", fn |-> "shutdown", once |-> FALSE],
           [ev |-> "unhandledRejection", fn |-> "shutdown", once |-> FALSE]>>
    ELSE <<>>

\* process.env: TEMPORAL_HOST_URL, TEMPORAL_TLS_CERT and TEMPORAL_TLS_KEY
\* set or not; a local run, a complete cloud configuration, and the two
\* incomplete ones.
Envs == {<<FALSE, FALSE, FALSE>>, <<TRUE, TRUE, TRUE>>,
         <<TRUE, FALSE, TRUE>>, <<TRUE, TRUE, FALSE>>}

\* The state when run() is about to be called.
InitProcess(entries) ==
    /\ cfg \in {c \in [entry : entries, tel : {"A", "B", "none"},
                       host : BOOLEAN, cert : BOOLEAN, key : BOOLEAN] :
                  /\ (c.tel = "none") <=> (c.entry \notin UsesInitOpenTelemetry)
                  /\ <<c.host, c.cert, c.key>> \in Envs}
    /\ mainPc = "start"
    /\ mainCall = 0
    /\ handlers = <<>>
    /\ listeners = ModuleListeners(cfg.entry)
    /\ exit = [exited |-> FALSE, code |-> 0, calls |-> 0]
    /\ events = 0
    /\ signalled = FALSE
    /\ sdkInstance = NULL
    /\ tracerInstance = 0
    /\ meterInstance = 0
    /\ initialized = FALSE
    /\ created = [tracers |-> 0, meters |-> 0]
    /\ sdkState = IF cfg.entry = WorkerInstr THEN "running" ELSE "none"
    /\ races = <<>>
    /\ worker = [state |-> "none", ref |-> FALSE, runtime |-> FALSE]
    /\ isShuttingDown = FALSE
    /\ dashboardMetrics = "none"
    /\ trace = <<>>
    /\ NoLibrary

\* No process is running: the state of the process variables in a run
\* that applies library code only.
NoProcess ==
    /\ cfg = [entry |-> "library", tel |-> "none",
              host |-> FALSE, cert |-> FALSE, key |-> FALSE]
    /\ mainPc = "none"
    /\ mainCall = 0
    /\ handlers = <<>>
    /\ listeners = <<>>
    /\ exit = [exited |-> FALSE, code |-> 0, calls |-> 0]
    /\ events = 0
    /\ signalled = FALSE
    /\ sdkInstance = NULL
    /\ tracerInstance = 0
    /\ meterInstance = 0
    /\ initialized = FALSE
    /\ created = [tracers |-> 0, meters |-> 0]
    /\ sdkState = "none"
    /\ races = <<>>
    /\ worker = [state |-> "none", ref |-> FALSE, runtime |-> FALSE]
    /\ isShuttingDown = FALSE
    /\ dashboardMetrics = "none"
    /\ trace = <<>>

\* process.exit(code).
ProcessExit(code) == [exited |-> TRUE, code |-> code, calls |-> exit.calls + 1]

IsListening(ev) == \E i \in DOMAIN listeners : listeners[i].ev = ev

\* process.emit(ev): every listener of ev is invoked, in registration
\* order; the listeners registered with once() are removed.
Fired(ev) ==
    LET Match(l) == l.ev = ev
        fired == SelectSeq(listeners, Match)
    IN [i \in 1..Len(fired) |-> [fn |-> fired[i].fn, pc |-> "start", call |-> 0]]

Remaining(ev) ==
    LET Keep(l) == ~(l.ev = ev /\ l.once)
    IN SelectSeq(listeners, Keep)

\* A promise rejection nobody handles: the unhandledRejection listeners
\* if there are any, else it is raised as an uncaught exception: the
\* uncaughtException listeners if there are any, else the process dies
\* with code 1.
UnhandledEvent ==
    IF IsListening("unhandledRejection") THEN "unhandledRejection"
    ELSE "uncaughtException"

\* An exception or a rejection reaches the process.
Raise(ev) ==
    IF IsListening(ev)
    THEN /\ handlers' = handlers \o Fired(ev)
         /\ listeners' = Remaining(ev)
         /\ exit' = exit
    ELSE /\ exit' = [exited |-> TRUE, code |-> 1, calls |-> exit.calls]
         /\ UNCHANGED <<handlers, listeners>>

SpanStart(by, name) == Ev(by, "startSpan", name)
SpanEnd(by, name)   == Ev(by, "span.end", name)

\* The exit status of a process killed by a signal nobody listens to.
SignalExitCode(sig) == IF sig = "SIGINT" THEN 130 ELSE 143

\* SIGINT or SIGTERM is delivered to a worker process.  The listeners run;
\* the Temporal Runtime, once installed, listens too and asks its workers
\* to shut down; with no listener at all the signal kills the process.
Signal(sig) ==
    /\ Ready
    /\ cfg.entry \in Workers
    /\ mainPc # "start"
    /\ events < MaxEvents
    /\ events' = events + 1
    /\ signalled' = TRUE
    /\ trace' = Append(trace, Ev("os", sig, ""))
    /\ IF IsListening(sig) \/ worker.runtime
       THEN /\ handlers' = handlers \o Fired(sig)
            /\ listeners' = Remaining(sig)
            /\ worker' = IF worker.runtime /\ worker.state = "running"
                         THEN [worker EXCEPT !.state = "stopping"]
                         ELSE worker
            /\ exit' = exit
       ELSE /\ exit' = [exited |-> TRUE, code |-> SignalExitCode(sig),
                        calls |-> exit.calls]
            /\ UNCHANGED <<handlers, listeners, worker>>
    /\ UNCHANGED <<cfg, libVars, mainPc, mainCall, utilsVars, sdkVars, isShuttingDown, dashboardMetrics>>

\* A promise rejected in a callback of the running worker and nobody
\* handles it.
StrayRejection ==
    /\ Ready
    /\ cfg.entry \in Workers
    /\ worker.state = "running"
    /\ events < MaxEvents
    /\ events' = events + 1
    /\ trace' = Append(trace, Ev("node", "unhandledRejection", ""))
    /\ Raise(UnhandledEvent)
    /\ UNCHANGED <<cfg, libVars, mainPc, mainCall, signalled, utilsVars, sdkVars, workVars>>

\* An exception thrown from a callback of the running worker.
StrayException ==
    /\ Ready
    /\ cfg.entry \in Workers
    /\ worker.state = "running"
    /\ events < MaxEvents
    /\ events' = events + 1
    /\ trace' = Append(trace, Ev("node", "uncaughtException", ""))
    /\ Raise("uncaughtException")
    /\ UNCHANGED <<cfg, libVars, mainPc, mainCall, signalled, utilsVars, sdkVars, workVars>>

\* The promise of run() rejected: run().catch(...) calls process.exit(1)
\* where the entry point has one, else the rejection is unhandled.
RunRejected ==
    /\ ~exit.exited
    /\ mainPc = "rejected"
    /\ mainPc' = "done"
    /\ IF cfg.entry \in HasRunCatch
       THEN /\ exit' = ProcessExit(1)
            /\ trace' = Append(trace, Ev("run.catch", "process.exit", "1"))
            /\ UNCHANGED <<handlers, listeners>>
       ELSE /\ Raise(UnhandledEvent)
            /\ trace' = Append(trace, Ev("node", "unhandledRejection", "run"))
    /\ UNCHANGED <<cfg, libVars, mainCall, events, signalled, utilsVars, sdkVars, workVars>>

\* Something keeps the event loop alive: a task that has not returned, an
\* undecided race, a worker that polls, the dashboard metrics timers.
Alive ==
    \/ mainPc # "done"
    \/ \E i \in DOMAIN handlers : handlers[i].pc # "done"
    \/ \E i \in DOMAIN races : races[i].result = "pending"
    \/ worker.state \in {"running", "stopping"}
    \/ dashboardMetrics = "registered"

\* Nothing is left to do: Node exits with process.exitCode, which no entry
\* point sets, so with 0.
ProcessEnds ==
    /\ Ready
    /\ ~Alive
    /\ exit' = [exited |-> TRUE, code |-> 0, calls |-> exit.calls]
    /\ UNCHANGED <<cfg, libVars, taskVars, listeners, events, signalled, utilsVars,
                   sdkVars, workVars, trace>>

----------------------------------------------------------------------------
(* initOpenTelemetry and registerShutdownHandler.                          *)

UncaughtListener ==
    [ev |-> "uncaughtException", fn |-> "onUncaughtException", once |-> FALSE]

\* The listeners registerShutdownHandler registers: the first bootstrap
\* only for uncaught exceptions, the second for the signals as well.
ShutdownListeners(tel) ==
    IF tel = "A" THEN <<UncaughtListener>>
    ELSE <<[ev |-> "SIGTERM", fn |-> "telemetryShutdown", once |-> FALSE],
           [ev |-> "SIGINT", fn |-> "telemetryShutdown", once |-> FALSE],
           UncaughtListener>>

\* run() calls initOpenTelemetry: the SDK is built and stored, the first
\* bootstrap registers its handler, sdk.start() is called and awaited.
initOpenTelemetry ==
    /\ Ready
    /\ cfg.entry \in UsesInitOpenTelemetry
    /\ mainPc = "start"
    /\ sdkInstance' = SDK
    /\ listeners' = IF cfg.tel = "A"
                    THEN listeners \o ShutdownListeners("A") ELSE listeners
    /\ sdkState' = "starting"
    /\ trace' = trace \o <<Ev("initOpenTelemetry", "setSDK", ""),
                           Ev("initOpenTelemetry", "sdk.start", "")>>
    /\ mainPc' = "awaitSdkStart"
    /\ UNCHANGED <<cfg, libVars, mainCall, handlers, exit, events, signalled,
                   tracerInstance, meterInstance, initialized, created,
                   races, workVars>>

\* sdk.start() settled.  On success the second bootstrap registers its
\* handlers, the first installs the Temporal Runtime, and run() goes on;
\* on failure the error is rethrown and run() rejects.
initOpenTelemetryResumes(ok) ==
    /\ Ready
    /\ mainPc = "awaitSdkStart"
    /\ IF ok
       THEN /\ sdkState' = IF sdkState = "starting" THEN "running" ELSE sdkState
            /\ listeners' = IF cfg.tel = "B"
                            THEN listeners \o ShutdownListeners("B")
                            ELSE listeners
            /\ worker' = IF cfg.tel = "A"
                         THEN [worker EXCEPT !.runtime = TRUE] ELSE worker
            /\ trace' = Append(trace, Ev("initOpenTelemetry", "sdk.started", ""))
            /\ mainPc' = "afterInit"
       ELSE /\ sdkState' = IF sdkState = "starting" THEN "failed" ELSE sdkState
            /\ trace' = Append(trace, Ev("initOpenTelemetry", "sdk.start.failed", ""))
            /\ mainPc' = "rejected"
            /\ UNCHANGED <<listeners, worker>>
    /\ UNCHANGED <<cfg, libVars, mainCall, handlers, exit, events, signalled, utilsVars,
                   races, isShuttingDown, dashboardMetrics>>

TelemetryHandlers == {"telemetryShutdown", "onUncaughtException"}

\* A handler of registerShutdownHandler is invoked: it calls
\* sdk.shutdown() and awaits the race against the rejecting timer.
registerShutdownHandler(i) ==
    /\ NextFresh(i)
    /\ handlers[i].fn \in TelemetryHandlers
    /\ races' = Append(races, NewHandlerRace)
    /\ sdkState' = SdkShutdownInvoked(sdkState)
    /\ handlers' = [handlers EXCEPT ![i].pc = "awaitRace",
                                    ![i].call = Len(races) + 1]
    /\ trace' = Append(trace, Ev(handlers[i].fn, "sdk.shutdown", ""))
    /\ UNCHANGED <<cfg, libVars, mainPc, mainCall, nodeVars, utilsVars, workVars>>

\* The race settled: success is logged, a rejection is caught and logged,
\* and the handler returns.
ShutdownHandlerReturns(i) ==
    /\ handlers[i].fn \in TelemetryHandlers
    /\ handlers[i].pc = "awaitRace"
    /\ Resumes(handlers[i].call)
    /\ handlers' = [handlers EXCEPT ![i].pc = "done", ![i].call = 0]
    /\ UNCHANGED <<cfg, libVars, mainPc, mainCall, nodeVars, utilsVars, sdkVars,
                   workVars, trace>>

----------------------------------------------------------------------------
(* Steps shared by the entry points.                                       *)

\* The i-th handler moves to pc, awaiting the race it has just started.
HandlerAwaits(i, pc) ==
    handlers' = [handlers EXCEPT ![i].pc = pc, ![i].call = Len(races) + 1]

\* worker?.shutdown() by the handler fn: nothing when the variable is unset.
WorkerShutdownTrace(tr, fn) ==
    IF worker.ref THEN Append(tr, Ev(fn, "worker.shutdown", "")) ELSE tr

WorkerShutdownCall ==
    worker' = IF worker.ref /\ worker.state = "running"
              THEN [worker EXCEPT !.state = "stopping"] ELSE worker

\* worker.run() settles: it resolves once the worker was asked to stop and
\* has drained, and rejects when the running worker fails.
WorkerRunSettles(ok) ==
    /\ worker.state = IF ok THEN "stopping" ELSE "running"
    /\ worker' = [worker EXCEPT !.state = IF ok THEN "stopped" ELSE "failed"]

\* Worker.create() resolved: the worker exists and the Runtime with it.
WorkerCreated == [state |-> "running", ref |-> TRUE, runtime |-> TRUE]

OnceListeners(fnInt, fnTerm) ==
    <<[ev |-> "SIGINT", fn |-> fnInt, once |-> TRUE],
      [ev |-> "SIGTERM", fn |-> fnTerm, once |-> TRUE]>>

----------------------------------------------------------------------------
(* worker.ts, first program: the SigNoz worker.                            *)

\* catch (err): end the span, await forceSpanExport(), then exit(1).
SignozWorkerCatch(tr) ==
    /\ trace' = ForceTrace(Append(tr, SpanEnd("run", "ExecuteWorkflow")), "run")
    /\ ForceSpanExportCall
    /\ mainPc' = "awaitCatchFlush"
    /\ mainCall' = Len(races) + 1

\* After initOpenTelemetry: the span, the TLS check, the connection.
SignozWorkerBegins ==
    /\ ~exit.exited
    /\ cfg.entry = WorkerSignoz
    /\ mainPc = "afterInit"
    /\ GetTracerCall
    /\ IF TlsMissing
       THEN SignozWorkerCatch(Append(trace, SpanStart("run", "ExecuteWorkflow")))
       ELSE /\ trace' = trace \o <<SpanStart("run", "ExecuteWorkflow"),
                                   Ev("run", "connect", "")>>
            /\ mainPc' = "awaitConnect"
            /\ UNCHANGED <<mainCall, sdkVars>>
    /\ UNCHANGED <<cfg, libVars, handlers, nodeVars, sdkInstance, meterInstance,
                   initialized, workVars>>

\* NativeConnection.connect settled: Worker.create, or the catch block.
SignozWorkerConnected(ok) ==
    /\ Ready
    /\ cfg.entry = WorkerSignoz
    /\ mainPc = "awaitConnect"
    /\ IF ok
       THEN /\ trace' = Append(trace, Ev("run", "Worker.create", ""))
            /\ mainPc' = "awaitCreate"
            /\ UNCHANGED <<mainCall, sdkVars>>
       ELSE SignozWorkerCatch(trace)
    /\ UNCHANGED <<cfg, libVars, handlers, nodeVars, utilsVars, workVars>>

\* Worker.create settled: the shutdown closure is registered once for
\* each signal and worker.run() is awaited; or the catch block.
SignozWorkerCreated(ok) ==
    /\ Ready
    /\ cfg.entry = WorkerSignoz
    /\ mainPc = "awaitCreate"
    /\ IF ok
       THEN /\ worker' = WorkerCreated
            /\ listeners' = listeners \o OnceListeners("shutdown", "shutdown")
            /\ trace' = Append(trace, Ev("run", "worker.run", ""))
            /\ mainPc' = "awaitRun"
            /\ UNCHANGED <<mainCall, sdkVars>>
       ELSE /\ SignozWorkerCatch(trace)
            /\ UNCHANGED <<worker, listeners>>
    /\ UNCHANGED <<cfg, libVars, handlers, exit, events, signalled, utilsVars,
                   isShuttingDown, dashboardMetrics>>

\* worker.run() settled: run() returns, or the catch block.
SignozWorkerRan(ok) ==
    /\ Ready
    /\ cfg.entry = WorkerSignoz
    /\ mainPc = "awaitRun"
    /\ WorkerRunSettles(ok)
    /\ IF ok
       THEN /\ mainPc' = "done"
            /\ UNCHANGED <<mainCall, sdkVars, trace>>
       ELSE SignozWorkerCatch(trace)
    /\ UNCHANGED <<cfg, libVars, handlers, nodeVars, utilsVars, isShuttingDown, dashboardMetrics>>

\* The catch block's forceSpanExport() resolved: process.exit(1).
SignozWorkerCatchExits ==
    /\ cfg.entry = WorkerSignoz
    /\ mainPc = "awaitCatchFlush"
    /\ Resumes(mainCall)
    /\ exit' = ProcessExit(1)
    /\ trace' = Append(trace, Ev("run", "process.exit", "1"))
    /\ UNCHANGED <<cfg, libVars, taskVars, listeners, events, signalled, utilsVars,
                   sdkVars, workVars>>

\* shutdown is invoked: await worker?.shutdown().
SignozShutdown(i) ==
    /\ NextFresh(i)
    /\ cfg.entry = WorkerSignoz
    /\ handlers[i].fn = "shutdown"
    /\ WorkerShutdownCall
    /\ trace' = WorkerShutdownTrace(trace, "shutdown")
    /\ handlers' = [handlers EXCEPT ![i].pc = "awaitWorkerShutdown"]
    /\ UNCHANGED <<cfg, libVars, mainPc, mainCall, nodeVars, utilsVars, sdkVars,
                   isShuttingDown, dashboardMetrics>>

\* shutdown goes on: the span is ended, forceSpanExport() is awaited.
SignozShutdownFlushes(i) ==
    /\ Ready
    /\ cfg.entry = WorkerSignoz
    /\ handlers[i].fn = "shutdown"
    /\ handlers[i].pc = "awaitWorkerShutdown"
    /\ trace' = ForceTrace(Append(trace, SpanEnd("shutdown", "ExecuteWorkflow")),
                           "shutdown")
    /\ ForceSpanExportCall
    /\ HandlerAwaits(i, "awaitFlush")
    /\ UNCHANGED <<cfg, libVars, mainPc, mainCall, nodeVars, utilsVars, workVars>>

\* forceSpanExport() resolved: process.exit(0).
SignozShutdownExits(i) ==
    /\ cfg.entry = WorkerSignoz
    /\ handlers[i].fn = "shutdown"
    /\ handlers[i].pc = "awaitFlush"
    /\ Resumes(handlers[i].call)
    /\ exit' = ProcessExit(0)
    /\ trace' = Append(trace, Ev("shutdown", "process.exit", "0"))
    /\ UNCHANGED <<cfg, libVars, taskVars, listeners, events, signalled, utilsVars,
                   sdkVars, workVars>>

----------------------------------------------------------------------------
(* worker.ts, second program, and its copy without TLS: the dashboard      *)
(* workers.                                                                *)

DashboardWorkers == {WorkerDashboardTls, WorkerDashboard}

\* catch (error): the metrics are stopped, and in the finally block both
\* spans are ended and process.exit(1) is called.
DashboardWorkerCatch(tr) ==
    /\ trace' = tr \o <<SpanEnd("run", "ExecuteWorkflow"),
                        SpanEnd("run", "WorkerExecution"),
                        Ev("run", "process.exit", "1")>>
    /\ dashboardMetrics' = "stopped"
    /\ exit' = ProcessExit(1)
    /\ UNCHANGED <<mainPc, mainCall>>

\* After initOpenTelemetry: the parent span, the dashboard metrics, and the
\* body passed to context.with up to its first await: the second span, the
\* TLS check of the first copy, the connection.
DashboardWorkerBegins ==
    /\ ~exit.exited
    /\ cfg.entry \in DashboardWorkers
    /\ mainPc = "afterInit"
    /\ GetTracerCall
    /\ LET tr == trace \o <<SpanStart("run", "WorkerExecution"),
                            SpanStart("run", "ExecuteWorkflow")>>
       IN IF cfg.entry = WorkerDashboardTls /\ TlsMissing
          THEN DashboardWorkerCatch(tr)
          ELSE /\ trace' = Append(tr, Ev("run", "connect", ""))
               /\ dashboardMetrics' = "registered"
               /\ mainPc' = "awaitConnect"
               /\ UNCHANGED <<mainCall, exit>>
    /\ UNCHANGED <<cfg, libVars, handlers, listeners, events, signalled, sdkInstance,
                   meterInstance, initialized, sdkVars, worker, isShuttingDown>>

\* NativeConnection.connect settled.
DashboardWorkerConnected(ok) ==
    /\ Ready
    /\ cfg.entry \in DashboardWorkers
    /\ mainPc = "awaitConnect"
    /\ IF ok
       THEN /\ trace' = Append(trace, Ev("run", "Worker.create", ""))
            /\ mainPc' = "awaitCreate"
            /\ UNCHANGED <<mainCall, exit, dashboardMetrics>>
       ELSE DashboardWorkerCatch(trace)
    /\ UNCHANGED <<cfg, libVars, handlers, listeners, events, signalled, utilsVars,
                   sdkVars, worker, isShuttingDown>>

\* Worker.create settled: worker.run() is awaited.
DashboardWorkerCreated(ok) ==
    /\ Ready
    /\ cfg.entry \in DashboardWorkers
    /\ mainPc = "awaitCreate"
    /\ IF ok
       THEN /\ worker' = WorkerCreated
            /\ trace' = Append(trace, Ev("run", "worker.run", ""))
            /\ mainPc' = "awaitRun"
            /\ UNCHANGED <<mainCall, exit, dashboardMetrics>>
       ELSE /\ DashboardWorkerCatch(trace)
            /\ UNCHANGED worker
    /\ UNCHANGED <<cfg, libVars, handlers, listeners, events, signalled, utilsVars,
                   sdkVars, isShuttingDown>>

\* worker.run() settled: only now is the SIGINT handler registered.
DashboardWorkerRan(ok) ==
    /\ Ready
    /\ cfg.entry \in DashboardWorkers
    /\ mainPc = "awaitRun"
    /\ WorkerRunSettles(ok)
    /\ IF ok
       THEN /\ listeners' = Append(listeners,
                [ev |-> "SIGINT", fn |-> "onSigint", once |-> TRUE])
            /\ mainPc' = "done"
            /\ UNCHANGED <<mainCall, exit, dashboardMetrics, trace>>
       ELSE /\ DashboardWorkerCatch(trace)
            /\ UNCHANGED listeners
    /\ UNCHANGED <<cfg, libVars, handlers, events, signalled, utilsVars, sdkVars,
                   isShuttingDown>>

\* The SIGINT handler is invoked: if (worker) await worker.shutdown().
DashboardSigint(i) ==
    /\ NextFresh(i)
    /\ cfg.entry \in DashboardWorkers
    /\ handlers[i].fn = "onSigint"
    /\ WorkerShutdownCall
    /\ trace' = WorkerShutdownTrace(trace, "onSigint")
    /\ handlers' = [handlers EXCEPT ![i].pc = "awaitWorkerShutdown"]
    /\ UNCHANGED <<cfg, libVars, mainPc, mainCall, nodeVars, utilsVars, sdkVars,
                   isShuttingDown, dashboardMetrics>>

\* The handler goes on: worker = undefined, the metrics are stopped, the
\* spans are marked, and it sleeps for a second.
DashboardSigintCleans(i) ==
    /\ Ready
    /\ cfg.entry \in DashboardWorkers
    /\ handlers[i].fn = "onSigint"
    /\ handlers[i].pc = "awaitWorkerShutdown"
    /\ worker' = [worker EXCEPT !.ref = FALSE]
    /\ dashboardMetrics' = "stopped"
    /\ handlers' = [handlers EXCEPT ![i].pc = "awaitSleep"]
    /\ UNCHANGED <<cfg, libVars, mainPc, mainCall, nodeVars, utilsVars, sdkVars,
                   isShuttingDown, trace>>

\* The second has passed: forceSpanExport() is awaited.
DashboardSigintFlushes(i) ==
    /\ Ready
    /\ cfg.entry \in DashboardWorkers
    /\ handlers[i].fn = "onSigint"
    /\ handlers[i].pc = "awaitSleep"
    /\ trace' = ForceTrace(trace, "onSigint")
    /\ ForceSpanExportCall
    /\ HandlerAwaits(i, "awaitFlush")
    /\ UNCHANGED <<cfg, libVars, mainPc, mainCall, nodeVars, utilsVars, workVars>>

\* forceSpanExport() resolved: the spans are ended, process.exit(0).
DashboardSigintExits(i) ==
    /\ cfg.entry \in DashboardWorkers
    /\ handlers[i].fn = "onSigint"
    /\ handlers[i].pc = "awaitFlush"
    /\ Resumes(handlers[i].call)
    /\ exit' = ProcessExit(0)
    /\ trace' = trace \o <<SpanEnd("onSigint", "ExecuteWorkflow"),
                           SpanEnd("onSigint", "WorkerExecution"),
                           Ev("onSigint", "process.exit", "0")>>
    /\ UNCHANGED <<cfg, libVars, taskVars, listeners, events, signalled, utilsVars,
                   sdkVars, workVars>>

----------------------------------------------------------------------------
(* The Hello World worker with the isShuttingDown flag.                    *)

\* The finally blocks on the way out of run(): the inner one ends the
\* RunWorkflow span, the outer one ends the ExecuteWorkflow span unless
\* isShuttingDown is set.
MainWorkerUnwinds(tr) ==
    tr \o <<SpanEnd("run", "RunWorkflow:HelloWorldWorkflow")>>
       \o (IF isShuttingDown THEN <<>>
           ELSE <<SpanEnd("run", "ExecuteWorkflow")>>)

\* After initOpenTelemetry: both spans, then await Worker.create (the
\* connection is left to getWorkerOptions; no TLS check).
MainWorkerBegins ==
    /\ ~exit.exited
    /\ cfg.entry = WorkerMain
    /\ mainPc = "afterInit"
    /\ GetTracerCall
    /\ trace' = trace \o <<SpanStart("run", "ExecuteWorkflow"),
                           SpanStart("run", "RunWorkflow:HelloWorldWorkflow"),
                           Ev("run", "Worker.create", "")>>
    /\ mainPc' = "awaitCreate"
    /\ UNCHANGED <<cfg, libVars, mainCall, handlers, nodeVars, sdkInstance, meterInstance,
                   initialized, sdkVars, workVars>>

\* Worker.create settled: workerInstance is set and worker.run() awaited;
\* or both catch blocks rethrow and run() rejects.
MainWorkerCreated(ok) ==
    /\ Ready
    /\ cfg.entry = WorkerMain
    /\ mainPc = "awaitCreate"
    /\ IF ok
       THEN /\ worker' = WorkerCreated
            /\ trace' = Append(trace, Ev("run", "worker.run", ""))
            /\ mainPc' = "awaitRun"
       ELSE /\ trace' = MainWorkerUnwinds(trace)
            /\ mainPc' = "rejected"
            /\ UNCHANGED worker
    /\ UNCHANGED <<cfg, libVars, mainCall, handlers, nodeVars, utilsVars, sdkVars,
                   isShuttingDown, dashboardMetrics>>

\* worker.run() settled: run() returns or rejects through the finally
\* blocks.
MainWorkerRan(ok) ==
    /\ Ready
    /\ cfg.entry = WorkerMain
    /\ mainPc = "awaitRun"
    /\ WorkerRunSettles(ok)
    /\ trace' = MainWorkerUnwinds(trace)
    /\ mainPc' = IF ok THEN "done" ELSE "rejected"
    /\ UNCHANGED <<cfg, libVars, mainCall, handlers, nodeVars, utilsVars, sdkVars,
                   isShuttingDown, dashboardMetrics>>

\* shutdown is invoked, by a signal or by the unhandledRejection listener:
\* it returns at once when isShuttingDown is set; else it sets the flag and
\* awaits workerInstance.shutdown(), or, with no worker yet, goes straight
\* to forceSpanExport().
MainShutdown(i) ==
    /\ NextFresh(i)
    /\ cfg.entry = WorkerMain
    /\ handlers[i].fn = "shutdown"
    /\ isShuttingDown' = TRUE
    /\ IF isShuttingDown
       THEN /\ handlers' = [handlers EXCEPT ![i].pc = "done"]
            /\ UNCHANGED <<worker, sdkVars, trace>>
       ELSE IF worker.ref
            THEN /\ WorkerShutdownCall
                 /\ trace' = WorkerShutdownTrace(trace, "shutdown")
                 /\ handlers' = [handlers EXCEPT ![i].pc = "awaitWorkerShutdown"]
                 /\ UNCHANGED sdkVars
            ELSE /\ trace' = ForceTrace(trace, "shutdown")
                 /\ ForceSpanExportCall
                 /\ HandlerAwaits(i, "awaitFlush")
                 /\ UNCHANGED worker
    /\ UNCHANGED <<cfg, libVars, mainPc, mainCall, nodeVars, utilsVars, dashboardMetrics>>

\* workerInstance.shutdown() returned: forceSpanExport() is awaited.
MainShutdownFlushes(i) ==
    /\ Ready
    /\ cfg.entry = WorkerMain
    /\ handlers[i].fn = "shutdown"
    /\ handlers[i].pc = "awaitWorkerShutdown"
    /\ trace' = ForceTrace(trace, "shutdown")
    /\ ForceSpanExportCall
    /\ HandlerAwaits(i, "awaitFlush")
    /\ UNCHANGED <<cfg, libVars, mainPc, mainCall, nodeVars, utilsVars, workVars>>

\* forceSpanExport() resolved: process.exit(0).
MainShutdownExits(i) ==
    /\ cfg.entry = WorkerMain
    /\ handlers[i].fn = "shutdown"
    /\ handlers[i].pc = "awaitFlush"
    /\ Resumes(handlers[i].call)
    /\ exit' = ProcessExit(0)
    /\ trace' = Append(trace, Ev("shutdown", "process.exit", "0"))
    /\ UNCHANGED <<cfg, libVars, taskVars, listeners, events, signalled, utilsVars,
                   sdkVars, workVars>>

----------------------------------------------------------------------------
(* The workers without initOpenTelemetry: the basic one, the one with TLS, *)
(* and the one instrumented through instrumentation.ts.                    *)

PlainWorkers == {WorkerBasic, WorkerInstr, WorkerTls}

\* catch (err) { process.exit(1) }.
PlainWorkerCatch ==
    /\ trace' = Append(trace, Ev("run", "process.exit", "1"))
    /\ exit' = ProcessExit(1)
    /\ UNCHANGED <<mainPc, mainCall>>

\* run() up to its first await: the instrumented worker installs the
\* Temporal Runtime; the two with TLS check the environment; connect.
PlainWorkerBegins ==
    /\ Ready
    /\ cfg.entry \in PlainWorkers
    /\ mainPc = "start"
    /\ worker' = IF cfg.entry = WorkerInstr
                 THEN [worker EXCEPT !.runtime = TRUE] ELSE worker
    /\ IF cfg.entry # WorkerBasic /\ TlsMissing
       THEN PlainWorkerCatch
       ELSE /\ trace' = Append(trace, Ev("run", "connect", ""))
            /\ mainPc' = "awaitConnect"
            /\ UNCHANGED <<mainCall, exit>>
    /\ UNCHANGED <<cfg, libVars, handlers, listeners, events, signalled, utilsVars,
                   sdkVars, isShuttingDown, dashboardMetrics>>

\* NativeConnection.connect settled.
PlainWorkerConnected(ok) ==
    /\ Ready
    /\ cfg.entry \in PlainWorkers
    /\ mainPc = "awaitConnect"
    /\ IF ok
       THEN /\ trace' = Append(trace, Ev("run", "Worker.create", ""))
            /\ mainPc' = "awaitCreate"
            /\ UNCHANGED <<mainCall, exit>>
       ELSE PlainWorkerCatch
    /\ UNCHANGED <<cfg, libVars, handlers, listeners, events, signalled, utilsVars,
                   sdkVars, workVars>>

\* Worker.create settled: one closure is registered once for SIGINT and
\* another for SIGTERM, and worker.run() is awaited.
PlainWorkerCreated(ok) ==
    /\ Ready
    /\ cfg.entry \in PlainWorkers
    /\ mainPc = "awaitCreate"
    /\ IF ok
       THEN /\ worker' = WorkerCreated
            /\ listeners' = listeners \o OnceListeners("onSignal", "onSignal")
            /\ trace' = Append(trace, Ev("run", "worker.run", ""))
            /\ mainPc' = "awaitRun"
            /\ UNCHANGED <<mainCall, exit>>
       ELSE /\ PlainWorkerCatch
            /\ UNCHANGED <<worker, listeners>>
    /\ UNCHANGED <<cfg, libVars, handlers, events, signalled, utilsVars, sdkVars,
                   isShuttingDown, dashboardMetrics>>

\* worker.run() settled.  When it resolves run() returns, the
\* instrumented worker through finally { await otelSdk.shutdown() }.
PlainWorkerRan(ok) ==
    /\ Ready
    /\ cfg.entry \in PlainWorkers
    /\ mainPc = "awaitRun"
    /\ WorkerRunSettles(ok)
    /\ IF ~ok
       THEN /\ PlainWorkerCatch
            /\ UNCHANGED sdkVars
       ELSE IF cfg.entry = WorkerInstr
            THEN /\ races' = Append(races, NewFinallyShutdown)
                 /\ sdkState' = SdkShutdownInvoked(sdkState)
                 /\ trace' = Append(trace, Ev("run", "sdk.shutdown", ""))
                 /\ mainPc' = "awaitOtelShutdown"
                 /\ mainCall' = Len(races) + 1
                 /\ exit' = exit
            ELSE /\ mainPc' = "done"
                 /\ UNCHANGED <<mainCall, exit, sdkVars, trace>>
    /\ UNCHANGED <<cfg, libVars, handlers, listeners, events, signalled, utilsVars,
                   isShuttingDown, dashboardMetrics>>

\* otelSdk.shutdown() settled: run() returns, or rejects with its error.
PlainWorkerFinally ==
    /\ cfg.entry = WorkerInstr
    /\ mainPc = "awaitOtelShutdown"
    /\ Resumes(mainCall)
    /\ mainPc' = IF races[mainCall].result = "resolved" THEN "done" ELSE "rejected"
    /\ mainCall' = 0
    /\ UNCHANGED <<cfg, libVars, handlers, nodeVars, utilsVars, sdkVars, workVars, trace>>

\* A signal closure is invoked: await worker?.shutdown().
PlainSignal(i) ==
    /\ NextFresh(i)
    /\ cfg.entry \in PlainWorkers
    /\ handlers[i].fn = "onSignal"
    /\ WorkerShutdownCall
    /\ trace' = WorkerShutdownTrace(trace, "onSignal")
    /\ handlers' = [handlers EXCEPT ![i].pc = "awaitWorkerShutdown"]
    /\ UNCHANGED <<cfg, libVars, mainPc, mainCall, nodeVars, utilsVars, sdkVars,
                   isShuttingDown, dashboardMetrics>>

\* worker.shutdown() returned: process.exit(0).
PlainSignalExits(i) ==
    /\ Ready
    /\ cfg.entry \in PlainWorkers
    /\ handlers[i].fn = "onSignal"
    /\ handlers[i].pc = "awaitWorkerShutdown"
    /\ exit' = ProcessExit(0)
    /\ trace' = Append(trace, Ev("onSignal", "process.exit", "0"))
    /\ UNCHANGED <<cfg, libVars, taskVars, listeners, events, signalled, utilsVars,
                   sdkVars, workVars>>

----------------------------------------------------------------------------
(* The clients.                                                            *)

\* The outcome of the workflow as the client sees it.
WorkflowResult(ok) ==
    Ev("temporal", "workflow.result", IF ok THEN "completed" ELSE "failed")

\* counter.add(1, ...) on a counter run() created: "started" is the add
\* that counts a workflow as started, "completed" one that counts it as
\* over (the starter's counter with status completed or failed, the
\* dashboard client's workflow_completed_count_total).
CounterAdded(counter) == Ev("run", "counter.add", counter)

\* client.ts: the adds to workflowCompletionCounter once handle.result()
\* has settled: two when it resolved, one in the catch when it rejected.
DashboardClientCompletions(ok) ==
    IF ok THEN <<CounterAdded("completed"), CounterAdded("completed")>>
    ELSE <<CounterAdded("completed")>>

\* finally { startWorkflowSpan.end(); await forceSpanExport(); }.
ClientFlush(tr) ==
    /\ trace' = ForceTrace(Append(tr, SpanEnd("run", "StartWorkflow")), "run")
    /\ ForceSpanExportCall
    /\ mainPc' = "awaitFlush"
    /\ mainCall' = Len(races) + 1

\* forceSpanExport() resolved: run() returns.
ClientFlushed ==
    /\ cfg.entry \in {Starter, ClientDashboard, ClientSignoz}
    /\ mainPc = "awaitFlush"
    /\ Resumes(mainCall)
    /\ mainPc' = "done"
    /\ mainCall' = 0
    /\ UNCHANGED <<cfg, libVars, handlers, nodeVars, utilsVars, sdkVars, workVars, trace>>

\* helloWorldStarter.ts: after initOpenTelemetry, the StartWorkflow span
\* and Connection.connect() with no TLS check.
StarterBegins ==
    /\ ~exit.exited
    /\ cfg.entry = Starter
    /\ mainPc = "afterInit"
    /\ GetHandles
    /\ trace' = trace \o <<SpanStart("run", "StartWorkflow"),
                           Ev("run", "connect", "")>>
    /\ mainPc' = "awaitConnect"
    /\ UNCHANGED <<cfg, libVars, mainCall, handlers, nodeVars, sdkInstance, initialized,
                   sdkVars, workVars>>

\* Connection.connect settled: the two inner spans and the workflow; or
\* the outer catch, which swallows the error, and the finally block.
StarterConnected(ok) ==
    /\ Ready
    /\ cfg.entry = Starter
    /\ mainPc = "awaitConnect"
    /\ IF ok
       THEN /\ trace' = trace \o
                 <<CounterAdded("started"),
                   SpanStart("run", "StartWorkflow:HelloWorldWorkflow"),
                   SpanStart("run", "ExecuteWorkflow"),
                   Ev("run", "workflow.execute", "")>>
            /\ mainPc' = "awaitExecute"
            /\ UNCHANGED <<mainCall, sdkVars>>
       ELSE ClientFlush(trace)
    /\ UNCHANGED <<cfg, libVars, handlers, nodeVars, utilsVars, workVars>>

\* client.workflow.execute settled: success or failure, the inner catch
\* does not rethrow; both finally blocks run.
StarterExecuted(ok) ==
    /\ Ready
    /\ cfg.entry = Starter
    /\ mainPc = "awaitExecute"
    /\ ClientFlush(trace \o <<WorkflowResult(ok),
                              CounterAdded("completed"),
                              SpanEnd("run", "ExecuteWorkflow"),
                              SpanEnd("run", "StartWorkflow:HelloWorldWorkflow")>>)
    /\ UNCHANGED <<cfg, libVars, handlers, nodeVars, utilsVars, workVars>>

\* client.ts: finally { startWorkflowSpan.end(); await sleep(5000); ... }.
DashboardClientFinally(tr) ==
    /\ trace' = Append(tr, SpanEnd("run", "StartWorkflow"))
    /\ mainPc' = "awaitSleep"

\* client.ts: after initOpenTelemetry, the dashboard metrics, the
\* StartWorkflow span, the TLS check (its error is swallowed by the outer
\* catch), the connection.
DashboardClientBegins ==
    /\ ~exit.exited
    /\ cfg.entry = ClientDashboard
    /\ mainPc = "afterInit"
    /\ GetHandles
    /\ dashboardMetrics' = "registered"
    /\ LET tr == Append(trace, SpanStart("run", "StartWorkflow"))
       IN IF TlsMissing
          THEN DashboardClientFinally(tr)
          ELSE /\ trace' = Append(tr, Ev("run", "connect", ""))
               /\ mainPc' = "awaitConnect"
    /\ UNCHANGED <<cfg, libVars, mainCall, handlers, nodeVars, sdkInstance, initialized,
                   sdkVars, worker, isShuttingDown>>

\* Connection.connect settled: the ExecuteWorkflow span and
\* client.workflow.start; or the finally block.
DashboardClientConnected(ok) ==
    /\ Ready
    /\ cfg.entry = ClientDashboard
    /\ mainPc = "awaitConnect"
    /\ IF ok
       THEN /\ trace' = trace \o <<CounterAdded("started"),
                                   SpanStart("run", "ExecuteWorkflow"),
                                   Ev("run", "workflow.start", "")>>
            /\ mainPc' = "awaitStart"
       ELSE DashboardClientFinally(trace)
    /\ UNCHANGED <<cfg, libVars, mainCall, handlers, nodeVars, utilsVars, sdkVars, workVars>>

\* client.workflow.start settled: handle.result() is awaited; or the
\* error is rethrown through the finally blocks and swallowed.
DashboardClientStarted(ok) ==
    /\ Ready
    /\ cfg.entry = ClientDashboard
    /\ mainPc = "awaitStart"
    /\ IF ok
       THEN /\ mainPc' = "awaitResult"
            /\ UNCHANGED trace
       ELSE DashboardClientFinally(trace \o <<WorkflowResult(FALSE),
                                    CounterAdded("completed"),
                                    SpanEnd("run", "ExecuteWorkflow")>>)
    /\ UNCHANGED <<cfg, libVars, mainCall, handlers, nodeVars, utilsVars, sdkVars, workVars>>

\* handle.result() settled.
DashboardClientResulted(ok) ==
    /\ Ready
    /\ cfg.entry = ClientDashboard
    /\ mainPc = "awaitResult"
    /\ DashboardClientFinally(trace \o <<WorkflowResult(ok)>>
                                    \o DashboardClientCompletions(ok)
                                    \o <<SpanEnd("run", "ExecuteWorkflow")>>)
    /\ UNCHANGED <<cfg, libVars, mainCall, handlers, nodeVars, utilsVars, sdkVars, workVars>>

\* The five seconds have passed: stopMetrics(), await forceSpanExport().
DashboardClientSlept ==
    /\ Ready
    /\ cfg.entry = ClientDashboard
    /\ mainPc = "awaitSleep"
    /\ dashboardMetrics' = "stopped"
    /\ trace' = ForceTrace(trace, "run")
    /\ ForceSpanExportCall
    /\ mainPc' = "awaitFlush"
    /\ mainCall' = Len(races) + 1
    /\ UNCHANGED <<cfg, libVars, handlers, nodeVars, utilsVars, worker, isShuttingDown>>

----------------------------------------------------------------------------
(* The clients of part_011: the instrumented one and the SigNoz one.       *)

\* The instrumented client up to its first await: the TLS check, outside
\* any try, then Connection.connect.
InstrClientBegins ==
    /\ Ready
    /\ cfg.entry = ClientInstr
    /\ mainPc = "start"
    /\ IF TlsMissing
       THEN /\ mainPc' = "rejected"
            /\ UNCHANGED trace
       ELSE /\ mainPc' = "awaitConnect"
            /\ trace' = Append(trace, Ev("run", "connect", ""))
    /\ UNCHANGED <<cfg, libVars, mainCall, handlers, nodeVars, utilsVars, sdkVars, workVars>>

\* Connection.connect settled, still outside the try block.
InstrClientConnected(ok) ==
    /\ Ready
    /\ cfg.entry = ClientInstr
    /\ mainPc = "awaitConnect"
    /\ IF ok
       THEN /\ mainPc' = "awaitExecute"
            /\ trace' = Append(trace, Ev("run", "workflow.execute", ""))
       ELSE /\ mainPc' = "rejected"
            /\ UNCHANGED trace
    /\ UNCHANGED <<cfg, libVars, mainCall, handlers, nodeVars, utilsVars, sdkVars, workVars>>

\* client.workflow.execute settled: finally { await connection.close() },
\* or catch { process.exit(1) }.
InstrClientExecuted(ok) ==
    /\ Ready
    /\ cfg.entry = ClientInstr
    /\ mainPc = "awaitExecute"
    /\ IF ok
       THEN /\ trace' = trace \o <<WorkflowResult(TRUE),
                                   Ev("run", "connection.close", "")>>
            /\ mainPc' = "awaitClose"
            /\ exit' = exit
       ELSE /\ trace' = trace \o <<WorkflowResult(FALSE),
                                   Ev("run", "process.exit", "1")>>
            /\ exit' = ProcessExit(1)
            /\ UNCHANGED mainPc
    /\ UNCHANGED <<cfg, libVars, mainCall, handlers, listeners, events, signalled,
                   utilsVars, sdkVars, workVars>>

\* connection.close() returned: run() returns.
InstrClientClosed ==
    /\ Ready
    /\ cfg.entry = ClientInstr
    /\ mainPc = "awaitClose"
    /\ mainPc' = "done"
    /\ UNCHANGED <<cfg, libVars, mainCall, handlers, nodeVars, utilsVars, sdkVars,
                   workVars, trace>>

\* The SigNoz client after initOpenTelemetry: the StartWorkflow span, the
\* TLS check (swallowed by the outer catch), the connection.
SignozClientBegins ==
    /\ ~exit.exited
    /\ cfg.entry = ClientSignoz
    /\ mainPc = "afterInit"
    /\ GetHandles
    /\ LET tr == Append(trace, SpanStart("run", "StartWorkflow"))
       IN IF TlsMissing
          THEN ClientFlush(tr)
          ELSE /\ trace' = Append(tr, Ev("run", "connect", ""))
               /\ mainPc' = "awaitConnect"
               /\ UNCHANGED <<mainCall, sdkVars>>
    /\ UNCHANGED <<cfg, libVars, handlers, nodeVars, sdkInstance, initialized, workVars>>

\* Connection.connect settled: the two inner spans, client.workflow.start.
SignozClientConnected(ok) ==
    /\ Ready
    /\ cfg.entry = ClientSignoz
    /\ mainPc = "awaitConnect"
    /\ IF ok
       THEN /\ trace' = trace \o
                 <<SpanStart("run", "ExecuteWorkflow"),
                   SpanStart("run", "StartWorkflow:HelloWorldWorkflow"),
                   Ev("run", "workflow.start", "")>>
            /\ mainPc' = "awaitStart"
            /\ UNCHANGED <<mainCall, sdkVars>>
       ELSE ClientFlush(trace)
    /\ UNCHANGED <<cfg, libVars, handlers, nodeVars, utilsVars, workVars>>

\* catch (err): the inner spans are ended and process.exit(1) is called.
SignozClientCatch ==
    /\ trace' = trace \o <<WorkflowResult(FALSE),
                           SpanEnd("run", "ExecuteWorkflow"),
                           SpanEnd("run", "StartWorkflow:HelloWorldWorkflow"),
                           Ev("run", "process.exit", "1")>>
    /\ exit' = ProcessExit(1)
    /\ UNCHANGED mainPc

\* client.workflow.start settled.
SignozClientStarted(ok) ==
    /\ Ready
    /\ cfg.entry = ClientSignoz
    /\ mainPc = "awaitStart"
    /\ IF ok
       THEN /\ mainPc' = "awaitResult"
            /\ UNCHANGED <<trace, exit>>
       ELSE SignozClientCatch
    /\ UNCHANGED <<cfg, libVars, mainCall, handlers, listeners, events, signalled,
                   utilsVars, sdkVars, workVars>>

\* handle.result() settled: the inner spans are ended and the connection
\* is closed; or the catch block.
SignozClientResulted(ok) ==
    /\ Ready
    /\ cfg.entry = ClientSignoz
    /\ mainPc = "awaitResult"
    /\ IF ok
       THEN /\ trace' = trace \o
                 <<WorkflowResult(TRUE),
                   SpanEnd("run", "ExecuteWorkflow"),
                   SpanEnd("run", "StartWorkflow:HelloWorldWorkflow"),
                   Ev("run", "connection.close", "")>>
            /\ mainPc' = "awaitClose"
            /\ exit' = exit
       ELSE SignozClientCatch
    /\ UNCHANGED <<cfg, libVars, mainCall, handlers, listeners, events, signalled,
                   utilsVars, sdkVars, workVars>>

\* connection.close() returned: the outer finally block.
SignozClientClosed ==
    /\ Ready
    /\ cfg.entry = ClientSignoz
    /\ mainPc = "awaitClose"
    /\ ClientFlush(trace)
    /\ UNCHANGED <<cfg, libVars, handlers, nodeVars, utilsVars, workVars>>

----------------------------------------------------------------------------
(* The specifications: a worker process, a client process.                 *)

Signals == {"SIGINT", "SIGTERM"}

\* The steps every process can take.
Common ==
    \/ RunRejected
    \/ ProcessEnds
    \/ \E ok \in BOOLEAN : SdkShutdownSettles(ok)
    \/ \E i \in DOMAIN races : TimeoutFires(i)
    \/ initOpenTelemetry
    \/ \E ok \in BOOLEAN : initOpenTelemetryResumes(ok)
    \/ \E i \in DOMAIN handlers : registerShutdownHandler(i)
    \/ \E i \in DOMAIN handlers : ShutdownHandlerReturns(i)

NextWorker ==
    \/ Common
    \/ \E sig \in Signals : Signal(sig)
    \/ StrayRejection
    \/ StrayException
    \/ SignozWorkerBegins
    \/ \E ok \in BOOLEAN : SignozWorkerConnected(ok)
    \/ \E ok \in BOOLEAN : SignozWorkerCreated(ok)
    \/ \E ok \in BOOLEAN : SignozWorkerRan(ok)
    \/ SignozWorkerCatchExits
    \/ \E i \in DOMAIN handlers : SignozShutdown(i)
    \/ \E i \in DOMAIN handlers : SignozShutdownFlushes(i)
    \/ \E i \in DOMAIN handlers : SignozShutdownExits(i)
    \/ DashboardWorkerBegins
    \/ \E ok \in BOOLEAN : DashboardWorkerConnected(ok)
    \/ \E ok \in BOOLEAN : DashboardWorkerCreated(ok)
    \/ \E ok \in BOOLEAN : DashboardWorkerRan(ok)
    \/ \E i \in DOMAIN handlers : DashboardSigint(i)
    \/ \E i \in DOMAIN handlers : DashboardSigintCleans(i)
    \/ \E i \in DOMAIN handlers : DashboardSigintFlushes(i)
    \/ \E i \in DOMAIN handlers : DashboardSigintExits(i)
    \/ MainWorkerBegins
    \/ \E ok \in BOOLEAN : MainWorkerCreated(ok)
    \/ \E ok \in BOOLEAN : MainWorkerRan(ok)
    \/ \E i \in DOMAIN handlers : MainShutdown(i)
    \/ \E i \in DOMAIN handlers : MainShutdownFlushes(i)
    \/ \E i \in DOMAIN handlers : MainShutdownExits(i)
    \/ PlainWorkerBegins
    \/ \E ok \in BOOLEAN : PlainWorkerConnected(ok)
    \/ \E ok \in BOOLEAN : PlainWorkerCreated(ok)
    \/ \E ok \in BOOLEAN : PlainWorkerRan(ok)
    \/ PlainWorkerFinally
    \/ \E i \in DOMAIN handlers : PlainSignal(i)
    \/ \E i \in DOMAIN handlers : PlainSignalExits(i)

NextClient ==
    \/ Common
    \/ ClientFlushed
    \/ StarterBegins
    \/ \E ok \in BOOLEAN : StarterConnected(ok)
    \/ \E ok \in BOOLEAN : StarterExecuted(ok)
    \/ DashboardClientBegins
    \/ \E ok \in BOOLEAN : DashboardClientConnected(ok)
    \/ \E ok \in BOOLEAN : DashboardClientStarted(ok)
    \/ \E ok \in BOOLEAN : DashboardClientResulted(ok)
    \/ DashboardClientSlept
    \/ InstrClientBegins
    \/ \E ok \in BOOLEAN : InstrClientConnected(ok)
    \/ \E ok \in BOOLEAN : InstrClientExecuted(ok)
    \/ InstrClientClosed
    \/ SignozClientBegins
    \/ \E ok \in BOOLEAN : SignozClientConnected(ok)
    \/ \E ok \in BOOLEAN : SignozClientStarted(ok)
    \/ \E ok \in BOOLEAN : SignozClientResulted(ok)
    \/ SignozClientClosed

SpecWorker == InitProcess(Workers) /\ [][NextWorker]_vars

SpecClient == InitProcess(Clients) /\ [][NextClient]_vars

----------------------------------------------------------------------------
(* Library code: strings.  A string is the sequence of its characters.     *)

\* All strings over the characters cs of length at most n.
StringsOver(cs, n) == UNION {[1..k -> cs] : k \in 0..n}

\* String.prototype.split(d) with a one-character separator: the pieces
\* between the separators, empty pieces included.
RECURSIVE Split(_, _)
Split(s, d) ==
    IF \A i \in DOMAIN s : s[i] # d
    THEN <<s>>
    ELSE LET i == CHOOSE j \in DOMAIN s :
                      s[j] = d /\ \A h \in 1..(j - 1) : s[h] # d
         IN <<SubSeq(s, 1, i - 1)>> \o Split(SubSeq(s, i + 1, Len(s)), d)

\* String.prototype.trim().
RECURSIVE Trim(_)
Trim(s) ==
    IF s = <<>> THEN s
    ELSE IF Head(s) = " " THEN Trim(Tail(s))
    ELSE IF s[Len(s)] = " " THEN Trim(SubSeq(s, 1, Len(s) - 1))
    ELSE s

\* result[key] = value on an object kept as a set of <<key, value>>.
Put(obj, key, value) == {p \in obj : p[1] # key} \cup {<<key, value>>}

\* const [key, value] = pair.split('='): the first two pieces; a missing
\* piece is undefined, falsy like the empty string.
\* if (key && value) result[key.trim()] = value.trim().
PutPair(obj, pair) ==
    LET pieces == Split(pair, "=")
        key    == pieces[1]
        value  == IF Len(pieces) >= 2 THEN pieces[2] ELSE <<>>
    IN IF key # <<>> /\ value # <<>>
       THEN Put(obj, Trim(key), Trim(value))
       ELSE obj

\* The loop over the pairs, in order.
RECURSIVE PutPairs(_, _)
PutPairs(obj, pairs) ==
    IF pairs = <<>> THEN obj
    ELSE PutPairs(PutPair(obj, Head(pairs)), Tail(pairs))

\* extractKeyValues(str) of instrumentation.ts.
extractKeyValues(str) ==
    IF str = <<>> THEN {} ELSE PutPairs({}, Split(str, ","))

\* getOtelHeaders() with OTEL_EXPORTER_OTLP_HEADERS = headersEnv (the empty
\* string stands for unset as well: both are falsy).
getOtelHeaders(headersEnv) ==
    IF headersEnv # <<>> THEN PutPairs({}, Split(headersEnv, ",")) ELSE {}

\* The characters of the attribute and header strings tried.
PairChars == {"k", "v", "=", ",", " "}

\* The longest attribute or header string tried.
MaxPairsLen == 5

PairStrings == StringsOver(PairChars, MaxPairsLen)

----------------------------------------------------------------------------
(* Library code: the exporters.  process.env is [endpoint, protocol,       *)
(* headers]; "unset" is a variable that is not set.  A URL is the sequence *)
(* of its parts, so that appending a path is seen.                         *)

LocalEndpoint    == <<"http://localhost:4317">>
LoopbackEndpoint == <<"http://127.0.0.1:4317">>
CloudEndpoint    == <<"https://ingest.in.signoz.cloud:443">>
TracesPath       == "/v1/traces"

\* A variable that is not set reads as undefined.
Unset == <<"undefined">>

\* process.env.X || fallback: undefined and the empty string are falsy.
OrElse(value, fallback) == IF value \in {Unset, <<>>} THEN fallback ELSE value

\* The same for the protocol, whose values are kept as names.
ProtocolOr(protocol, fallback) ==
    IF protocol \in {"unset", ""} THEN fallback ELSE protocol

\* String.prototype.toLowerCase() on the protocol names tried.
ToLowerCase(protocol) ==
    CASE protocol = "HTTP" -> "http"
      [] protocol = "GRPC" -> "grpc"
      [] OTHER -> protocol

\* configureEnvironmentVariables(): the first bootstrap sets the protocol
\* to grpc when it is not set, the second one always.
configureEnvironmentVariables(tel, env) ==
    [env EXCEPT !.protocol = IF tel = "B" \/ @ \in {"unset", ""}
                             THEN "grpc" ELSE @]

\* getTracingExporter() of the tracing module with the HTTP branch.
getTracingExporter(env) ==
    LET protocol == ProtocolOr(env.protocol, "grpc")
        endpoint == OrElse(env.endpoint, LocalEndpoint)
    IN IF ToLowerCase(protocol) \in {"http/json", "http"}
       THEN [role |-> "trace", kind |-> "http",
             url |-> IF endpoint[Len(endpoint)] = TracesPath
                     THEN endpoint ELSE Append(endpoint, TracesPath),
             headers |-> getOtelHeaders(OrElse(env.headers, <<>>))]
       ELSE [role |-> "trace", kind |-> "grpc", url |-> endpoint,
             headers |-> {}]

\* getTracingExporter() of the tracing module without the HTTP branch.
getTracingExporterGrpc(env) ==
    [role |-> "trace", kind |-> "grpc",
     url |-> OrElse(env.endpoint, LocalEndpoint), headers |-> {}]

\* getMetricsReader(): the exporter of the reader.
getMetricsReader(env) ==
    [role |-> "metric", kind |-> "grpc",
     url |-> OrElse(env.endpoint, LocalEndpoint), headers |-> {}]

\* The exporters initOpenTelemetry hands to the NodeSDK: bootstrap tel
\* linked with the tracing module tracing ("http": with the HTTP branch).
InitExporters(tel, tracing, env) ==
    LET configured == configureEnvironmentVariables(tel, env)
    IN {IF tracing = "http" THEN getTracingExporter(configured)
        ELSE getTracingExporterGrpc(configured),
        getMetricsReader(configured)}

\* instrumentation.ts, first module: setupTraceExporter, setupMetricReader.
InstrumentationExporters(env) ==
    LET url == OrElse(env.endpoint, LoopbackEndpoint)
    IN {[role |-> r, kind |-> "grpc", url |-> url, headers |-> {}] :
           r \in {"trace", "metric"}}

\* instrumentation.ts, second module: trace, metric and log exporters with
\* the headers of OTEL_EXPORTER_OTLP_HEADERS.
CloudInstrumentationExporters(env) ==
    LET url == OrElse(env.endpoint, CloudEndpoint)
        headers == IF env.headers \in {Unset, <<>>} THEN {}
                   ELSE extractKeyValues(env.headers)
    IN {[role |-> r, kind |-> "grpc", url |-> url, headers |-> headers] :
           r \in {"trace", "metric", "log"}}

\* initializeRuntime(): the metrics exporter of the Temporal Runtime.
RuntimeExporters(env) ==
    {[role |-> "runtime", kind |-> "grpc",
      url |-> OrElse(env.endpoint, CloudEndpoint), headers |-> {}]}

\* The environments tried.
EndpointValues == {Unset, <<"http://collector:4318">>,
                   <<"http://collector:4318", TracesPath>>}
ProtocolValues == {"unset", "grpc", "http", "http/json", "HTTP", "http/protobuf"}
HeaderChars == {"k", "v", "="}
MaxHeaderLen == 3
HeaderValues == {Unset} \cup StringsOver(HeaderChars, MaxHeaderLen)
ExporterEnvs ==
    [endpoint : EndpointValues, protocol : ProtocolValues, headers : HeaderValues]

----------------------------------------------------------------------------
(* Library code: the workflow metrics.  The operators take and return the  *)
(* module's state m.                                                       *)

createCounterFresh(values, name) == IF name \in CounterNames THEN 0 ELSE values[name]

\* meter.createCounter(name): the meter hands out the instrument registered
\* under the name, which keeps the sum it has accumulated.
createCounter(values, name) == values[name]

\* initializeMetrics(): once, until cleanup.
initializeMetrics(m) ==
    IF m.initialized THEN m
    ELSE [m EXCEPT !.refs = CounterNames,
                   !.values = [c \in CounterNames |-> createCounter(m.values, c)],
                   !.initialized = TRUE,
                   !.inits = @ + 1]

\* A cleanup that drops the references and keeps the flag.
cleanupKeepsFlag(m) ==
    IF ~m.initialized THEN m
    ELSE [m EXCEPT !.refs = {}]

\* cleanup(): drops the references.
cleanup(m) ==
    IF ~m.initialized THEN m
    ELSE [m EXCEPT !.refs = {}, !.initialized = FALSE]

\* counter?.add(amount, attributes).
CounterAdd(m, c, amount) ==
    IF c \in m.refs THEN [m EXCEPT !.values[c] = @ + amount] ELSE m

\* The functions that add to one counter of their own.
CounterOf ==
    [recordSuccess |-> "workflow_success",
     recordFailure |-> "workflow_failed",
     recordTimeout |-> "workflow_timeout",
     recordTermination |-> "workflow_terminate",
     recordCancellation |-> "workflow_cancel",
     recordServiceRequest |-> "service_requests",
     recordServiceRestart |-> "restarts",
     recordScheduleToStartTimeout |-> "schedule_to_start_timeout",
     recordStartToCloseTimeout |-> "start_to_close_timeout"]

RecordOne(m, fn) ==
    LET c == CounterOf[fn]
    IN CounterAdd(IF c \notin m.refs THEN initializeMetrics(m) ELSE m, c, 1)

\* An optional string argument is falsy when left out or empty.
Given(errorType) == errorType \notin {"undefined", ""}

\* recordServiceError(operation, errorType?).
recordServiceError(m, errorType) ==
    LET ready == IF "service_errors" \notin m.refs
                    \/ "service_error_with_type" \notin m.refs
                 THEN initializeMetrics(m) ELSE m
        basic == CounterAdd(ready, "service_errors", 1)
    IN IF Given(errorType)
       THEN CounterAdd(basic, "service_error_with_type", 1)
       ELSE basic

\* The functions that only call another one: the callee and the error type
\* they pass.
Delegates ==
    [fn \in {"recordAddActivityTask", "recordRecordActivityTaskStarted",
             "recordResponseActivityCompleted", "recordRespondActivityTaskFailed",
             "recordRespondActivityTaskCanceled", "recordAddWorkflowTask",
             "recordRecordWorkflowTaskStarted", "recordRespondWorkflowTaskCompleted",
             "recordRespondWorkflowTaskFailed", "recordTimerActiveTaskWorkflowTimeout",
             "recordInitVerification", "recordRestart"}
        |-> [fn |-> "recordServiceRequest", errorType |-> "undefined"]]
    @@ [fn \in {"recordAddActivityTaskError", "recordRecordActivityTaskStartedError",
                "recordRespondActivityTaskCompletedError",
                "recordRespondActivityTaskFailedError",
                "recordRespondActivityTaskCanceledError", "recordAddWorkflowTaskError",
                "recordRecordWorkflowTaskStartedError",
                "recordRespondWorkflowTaskCompletedError",
                "recordRespondWorkflowTaskFailedError"}
        |-> [fn |-> "recordServiceError", errorType |-> "undefined"]]
    @@ [recordScheduleToStartWorkflowTimeout
            |-> [fn |-> "recordScheduleToStartTimeout", errorType |-> "undefined"],
        recordStartToCloseWorkflowTimeout
            |-> [fn |-> "recordStartToCloseTimeout", errorType |-> "undefined"],
        recordValidationError
            |-> [fn |-> "recordServiceError", errorType |-> "validation"],
        recordTimeoutError
            |-> [fn |-> "recordServiceError", errorType |-> "timeout"],
        recordBusinessRuleError
            |-> [fn |-> "recordServiceError", errorType |-> "business_rule"],
        recordSystemError
            |-> [fn |-> "recordServiceError", errorType |-> "system"]]

RecordFns ==
    DOMAIN CounterOf \cup DOMAIN Delegates
        \cup {"recordServiceError", "recordErrorWithType"}

\* The error types a caller passes.
ErrorTypes == {"undefined", "", "timeout"}

\* The function that does the work of record function fn, with the error
\* type it is given.
Callee(fn, errorType) ==
    IF fn \in DOMAIN Delegates THEN Delegates[fn]
    ELSE IF fn = "recordErrorWithType"
    THEN [fn |-> "recordServiceError", errorType |-> errorType]
    ELSE [fn |-> fn, errorType |-> errorType]

\* A call of record function fn.
Record(m, fn, errorType) ==
    LET callee == Callee(fn, errorType)
    IN IF callee.fn = "recordServiceError"
       THEN recordServiceError(m, callee.errorType)
       ELSE RecordOne(m, callee.fn)

\* The call is noted in calls and last.
Noted(m, fn, errorType) ==
    [m EXCEPT !.calls = @ + 1, !.last = [fn |-> fn, errorType |-> errorType]]

\* initializeMetrics() takes the meter from getMeter(), which caches it.
MeterTaken(before, after) ==
    IF ~before.initialized /\ after.initialized /\ meterInstance = 0
    THEN /\ meterInstance' = created.meters + 1
         /\ created' = [created EXCEPT !.meters = @ + 1]
    ELSE UNCHANGED <<meterInstance, created>>

----------------------------------------------------------------------------
(* Library code: the greetings.  A string is the sequence of its           *)
(* characters.                                                             *)

\* String.prototype.toUpperCase() and toLowerCase() on the letters tried.
\* "sz" is the one character U+00DF, the sharp s, whose upper case is the
\* two letters SS.
UpperOf == [b |-> <<"B">>, o |-> <<"O">>, s |-> <<"S">>, sz |-> <<"S", "S">>]
LowerOf == [B |-> "b", O |-> "o", S |-> "s"]

RECURSIVE toUpperCase(_)
toUpperCase(str) ==
    IF str = <<>> THEN <<>>
    ELSE (IF Head(str) \in DOMAIN UpperOf THEN UpperOf[Head(str)]
          ELSE <<Head(str)>>) \o toUpperCase(Tail(str))

toLowerCase(str) ==
    [i \in DOMAIN str |-> IF str[i] \in DOMAIN LowerOf THEN LowerOf[str[i]]
                          ELSE str[i]]

\* str.charAt(0) and str.slice(1).
CharAt0(str) == IF str = <<>> THEN <<>> ELSE <<Head(str)>>
Slice1(str) == IF str = <<>> THEN <<>> ELSE Tail(str)

formatNameKeepCase(name) ==
    toUpperCase(CharAt0(Trim(name))) \o Slice1(Trim(name))

\* formatName(name).
formatName(name) ==
    toUpperCase(CharAt0(Trim(name))) \o toLowerCase(Slice1(Trim(name)))

sayHelloPlain(name) == <<"H", "e", "l", "l", "o", " ">> \o name

\* The workflow sayHello without activities, and the activity sayHello.
sayHello(name) == <<"H", "e", "l", "l", "o", " ">> \o name \o <<"!">>
sayHelloActivity(name) == <<"H", "e", "l", "l", "o", " ">> \o name \o <<"!">>

\* What an awaited call comes to: a value, or an error thrown.
Returned(value) == [ok |-> TRUE, value |-> value, error |-> "none"]
Thrown(error) == [ok |-> FALSE, value |-> <<>>, error |-> error]
Errors == {"ActivityFailure", "TimeoutFailure"}

\* greetUser(name): try { return await sayHello(name) } catch { throw err }.
greetUser(activity) == IF activity.ok THEN Returned(activity.value)
                       ELSE Thrown(activity.error)

\* The greetings generateGreeting chooses from, in the order of the array.
Greetings ==
    << <<"H", "e", "l", "l", "o">>, <<"H", "i">>, <<"H", "e", "y">>,
       <<"G", "r", "e", "e", "t", "i", "n", "g", "s">>,
       <<"W", "e", "l", "c", "o", "m", "e">> >>

\* Math.random() gives tenths/10 in [0, 1); Math.floor(random * length)
\* is the index, counted from 0.
RandomTenths == 0..9
RandomIndex(tenths, length) == (tenths * length) \div 10

generateGreetingNoComma(formattedName, tenths) ==
    Greetings[RandomIndex(tenths, Len(Greetings)) + 1]
        \o <<" ">> \o formattedName \o <<"!">>

\* generateGreeting(formattedName), with the random number it draws.
generateGreeting(formattedName, tenths) ==
    Greetings[RandomIndex(tenths, Len(Greetings)) + 1]
        \o <<",", " ">> \o formattedName \o <<"!">>

\* The decimal digits of n, padded with zeros to width.
Digits == <<"0", "1", "2", "3", "4", "5", "6", "7", "8", "9">>
RECURSIVE Padded(_, _)
Padded(n, width) ==
    IF width = 0 THEN <<>>
    ELSE Padded(n \div 10, width - 1) \o <<Digits[(n % 10) + 1]>>

\* Date.prototype.toISOString() of a time given by its UTC fields.
toISOString(date) ==
    Padded(date.year, 4) \o <<"-">> \o Padded(date.month, 2) \o <<"-">>
        \o Padded(date.day, 2) \o <<"T">> \o Padded(date.hour, 2) \o <<":">>
        \o Padded(date.minute, 2) \o <<":">> \o Padded(date.second, 2)
        \o <<".">> \o Padded(date.ms, 3) \o <<"Z">>

\* addTimestamp(greeting), with the time new Date() reads.
addTimestamp(greeting, now) ==
    <<"[">> \o toISOString(now) \o <<"]", " ">> \o greeting

\* The times tried.
Dates ==
    {[year |-> 2025, month |-> 1, day |-> 2, hour |-> 3, minute |-> 4,
      second |-> 5, ms |-> 6],
     [year |-> 2026, month |-> 11, day |-> 30, hour |-> 23, minute |-> 59,
      second |-> 59, ms |-> 999]}

executeWrapping(next) ==
    IF next.ok THEN Returned(next.value) ELSE Thrown("WorkflowFailure")

\* RunWorkflowInterceptor.execute(input, next): the result of next, or the
\* error it throws.
execute(next) ==
    IF next.ok THEN Returned(next.value) ELSE Thrown(next.error)

\* initOpenTelemetry from sdk.start() on, given what sdk.start(), the
\* verification metric and Runtime.install come to.  The error of
\* sdk.start() is logged and thrown again; the first bootstrap goes on to
\* the metric and the Runtime, whose errors it logs and drops, the second
\* returns the sdk.
initOpenTelemetryOutcome(tel, sdk) ==
    IF ~sdk.start.ok THEN Thrown(sdk.start.error)
    ELSE IF tel = "A" THEN Returned(<<>>)
    ELSE Returned(<<"sdk">>)

\* The settled calls tried.
Outcomes ==
    {Returned(value) : value \in {<<>>, <<"H", "i">>}}
        \cup {Thrown(e) : e \in Errors}
SdkOutcomes ==
    [start : {Returned(<<>>)} \cup {Thrown(e) : e \in Errors},
     verify : {Returned(<<>>)} \cup {Thrown(e) : e \in Errors},
     install : {Returned(<<>>)} \cup {Thrown(e) : e \in Errors}]

\* The names tried.
NameChars == {"b", "B", "sz", " "}
MaxNameLen == 3
Temporal == <<"T", "e", "m", "p", "o", "r", "a", "l">>
PaddedBob == <<" ", " ", "b", "o", "b", " ", " ">>
Names == StringsOver(NameChars, MaxNameLen) \cup {Temporal, PaddedBob}

----------------------------------------------------------------------------
(* Library code applied once to one input.                                 *)

procVars == <<cfg, taskVars, nodeVars, utilsVars, sdkVars, workVars, trace>>

\* The library function fn is applied to the input drawn by Init.
Called(fn, kind, ret) ==
    /\ call.fn = "none"
    /\ call.arg.kind = kind
    /\ call' = [call EXCEPT !.fn = fn, !.ret = ret]

Applied(fn, kind, ret) ==
    /\ Called(fn, kind, ret)
    /\ UNCHANGED <<procVars, wf, metrics, timers>>

\* An input of the given kind, not yet used.
Input(kind, value) ==
    [fn |-> "none", arg |-> [kind |-> kind, v |-> value], ret |-> <<>>]

ExtractKeyValuesCalled ==
    Applied("extractKeyValues", "pairs", extractKeyValues(call.arg.v))

GetOtelHeadersCalled ==
    Applied("getOtelHeaders", "pairs", getOtelHeaders(call.arg.v))

\* initOpenTelemetry builds its exporters, in either bootstrap and with
\* either tracing module.
ExportersBuilt(tel, tracing) ==
    Applied("initOpenTelemetry", "env",
            [tel |-> tel, tracing |-> tracing,
             exporters |-> InitExporters(tel, tracing, call.arg.v)])

\* The assignments to OTEL_EXPORTER_OTLP_ENDPOINT and
\* OTEL_EXPORTER_OTLP_PROTOCOL at the top of run(): the dashboard client
\* and the dashboard worker of part_006 set both, the dashboard worker of
\* worker.ts sets the endpoint when it reads as unset and the protocol
\* always; the other entry points set neither.
setEnvironment(entry, env) ==
    IF entry \in {ClientDashboard, WorkerDashboard}
    THEN [env EXCEPT !.endpoint = LocalEndpoint, !.protocol = "grpc"]
    ELSE IF entry = WorkerDashboardTls
    THEN [env EXCEPT !.endpoint = OrElse(@, LocalEndpoint), !.protocol = "grpc"]
    ELSE env

\* run() of an entry point up to the exporters: its own assignments, then
\* initOpenTelemetry.  env is process.env afterwards.
RunConfigured(entry, tel, tracing) ==
    LET set == setEnvironment(entry, call.arg.v)
    IN Applied("run", "env",
               [entry |-> entry, tel |-> tel, tracing |-> tracing,
                env |-> configureEnvironmentVariables(tel, set),
                exporters |-> InitExporters(tel, tracing, set)])

\* instrumentation.ts is loaded (first or second module), or the Runtime
\* is initialised.
InstrumentationLoaded ==
    Applied("instrumentation", "env",
            [exporters |-> InstrumentationExporters(call.arg.v)])

CloudInstrumentationLoaded ==
    Applied("cloudInstrumentation", "env",
            [exporters |-> CloudInstrumentationExporters(call.arg.v)])

RuntimeInitialized ==
    Applied("initializeRuntime", "env",
            [exporters |-> RuntimeExporters(call.arg.v)])

\* The workflow sayHello(name) without activities runs: it records the
\* verification metric and returns the greeting.
SayHelloCalled ==
    /\ Called("sayHello", "name", Returned(sayHello(call.arg.v.name)))
    /\ metrics' = Noted(Record(metrics, "recordInitVerification", "undefined"),
                        "recordInitVerification", "undefined")
    /\ MeterTaken(metrics, metrics')
    /\ UNCHANGED <<cfg, taskVars, nodeVars, sdkInstance, tracerInstance,
                   initialized, sdkVars, workVars, trace, wf, timers>>

\* The workflow greetUser(name) runs; its activity returns or fails.
\* The activity sayHello as the workflow sees it: its value, or the error
\* it fails with.
ActivityOutcome(v) ==
    IF v.fails = "none" THEN Returned(sayHelloActivity(v.name))
    ELSE Thrown(v.fails)

GreetUserCalled ==
    \E kind \in {"name", "failing"} :
       /\ call.arg.kind = kind
       /\ Applied("greetUser", kind, greetUser(ActivityOutcome(call.arg.v)))

FormatNameCalled ==
    Applied("formatName", "name", formatName(call.arg.v.name))

\* The interceptor's execute runs around a next that has settled.
ExecuteCalled ==
    Applied("execute", "outcome", execute(call.arg.v))

\* initOpenTelemetry of either bootstrap runs from sdk.start() on.
InitOpenTelemetryCalled(tel) ==
    Applied("sdk.start", "sdk",
            [tel |-> tel, outcome |-> initOpenTelemetryOutcome(tel, call.arg.v)])

----------------------------------------------------------------------------
(* The library specification: one input, one application.                  *)

LibraryInputs ==
    {Input("pairs", str) : str \in PairStrings}
        \cup {Input("env", env) : env \in ExporterEnvs}
        \cup {Input("name", [name |-> name, fails |-> "none"]) : name \in Names}
        \cup {Input("failing", [name |-> name, fails |-> e]) :
                 name \in Names, e \in Errors}
        \cup {Input("outcome", outcome) : outcome \in Outcomes}
        \cup {Input("sdk", sdk) : sdk \in SdkOutcomes}

InitLibrary ==
    /\ NoProcess
    /\ wf = NoWf
    /\ metrics = NoMetrics
    /\ timers = NoTimers
    /\ call \in LibraryInputs

NextLibrary ==
    \/ ExtractKeyValuesCalled
    \/ GetOtelHeadersCalled
    \/ \E tel \in TelVariants, tracing \in {"http", "grpc"} :
          ExportersBuilt(tel, tracing)
    \/ \E entry \in UsesInitOpenTelemetry, tel \in TelVariants,
             tracing \in {"http", "grpc"} : RunConfigured(entry, tel, tracing)
    \/ InstrumentationLoaded
    \/ CloudInstrumentationLoaded
    \/ RuntimeInitialized
    \/ SayHelloCalled
    \/ GreetUserCalled
    \/ FormatNameCalled
    \/ ExecuteCalled
    \/ \E tel \in TelVariants : InitOpenTelemetryCalled(tel)

SpecLibrary == InitLibrary /\ [][NextLibrary]_vars

----------------------------------------------------------------------------
(* The activity-based workflow sayHello, run under the workflow            *)
(* interceptor.  wf.log records what the activities were asked and what    *)
(* they answered.                                                          *)

Activities == <<"formatName", "generateGreeting", "addTimestamp">>
ActivityNames == {Activities[i] : i \in DOMAIN Activities}
IndexOf(activity) == CHOOSE i \in DOMAIN Activities : Activities[i] = activity

Logged(activity, event, value) ==
    [activity |-> activity, event |-> event, value |-> value]

\* The proxy schedules the activity with its argument and the workflow
\* awaits it.
Scheduled(w, activity, arg) ==
    [w EXCEPT !.pc = activity, !.arg = arg, !.settled = NoOutcome,
              !.log = Append(@, Logged(activity, "scheduled", arg))]

\* What the activity makes of its argument.
RunActivity(activity, arg, tenths, now) ==
    CASE activity = "formatName" -> formatName(arg)
      [] activity = "generateGreeting" -> generateGreeting(arg, tenths)
      [] activity = "addTimestamp" -> addTimestamp(arg, now)

sayHelloResumesRegardless(w) ==
    IF w.pc = "addTimestamp"
    THEN [w EXCEPT !.pc = "returned", !.out = Returned(w.settled.value)]
    ELSE Scheduled(w, Activities[IndexOf(w.pc) + 1], w.settled.value)

\* sayHello after an await: the next activity is called with the value, the
\* last value is returned, an error leaves the function.
sayHelloResumes(w) ==
    IF ~w.settled.ok
    THEN [w EXCEPT !.pc = "thrown", !.out = Thrown(w.settled.error)]
    ELSE IF w.pc = "addTimestamp"
    THEN [w EXCEPT !.pc = "returned", !.out = Returned(w.settled.value)]
    ELSE Scheduled(w, Activities[IndexOf(w.pc) + 1], w.settled.value)

wfFrame == <<procVars, call, metrics, timers>>

\* The interceptor calls next, sayHello calls formatName.
WorkflowStarted ==
    /\ wf.pc = "start"
    /\ wf' = Scheduled(wf, Activities[1], wf.name)
    /\ UNCHANGED wfFrame

\* The awaited activity returns.
ActivityCompleted ==
    /\ wf.pc \in ActivityNames
    /\ wf.settled = NoOutcome
    /\ \E tenths \in RandomTenths, now \in Dates :
          LET value == RunActivity(wf.pc, wf.arg, tenths, now)
          IN wf' = [wf EXCEPT !.settled = Returned(value),
                              !.log = Append(@, Logged(wf.pc, "completed", value))]
    /\ UNCHANGED wfFrame

\* The awaited activity fails.
ActivityFailed(error) ==
    /\ wf.pc \in ActivityNames
    /\ wf.settled = NoOutcome
    /\ wf' = [wf EXCEPT !.settled = Thrown(error),
                        !.log = Append(@, Logged(wf.pc, "failed", <<>>))]
    /\ UNCHANGED wfFrame

WorkflowResumed ==
    /\ wf.pc \in ActivityNames
    /\ wf.settled # NoOutcome
    /\ wf' = sayHelloResumes(wf)
    /\ UNCHANGED wfFrame

\* next has settled and execute returns or throws.
InterceptorResumed ==
    /\ wf.pc \in {"returned", "thrown"}
    /\ wf' = [wf EXCEPT !.pc = "done", !.seen = execute(wf.out)]
    /\ UNCHANGED wfFrame

InitWorkflow ==
    /\ NoProcess
    /\ call = NoCall
    /\ metrics = NoMetrics
    /\ timers = NoTimers
    /\ \E name \in Names : wf = [NoWf EXCEPT !.pc = "start", !.name = name]

NextWorkflow ==
    \/ WorkflowStarted
    \/ ActivityCompleted
    \/ \E error \in Errors : ActivityFailed(error)
    \/ WorkflowResumed
    \/ InterceptorResumed

SpecWorkflow == InitWorkflow /\ [][NextWorkflow]_vars

----------------------------------------------------------------------------
(* The workflow metrics module under any calls of its functions.           *)

MaxMetricCalls == 3

metricsFrame == <<cfg, taskVars, nodeVars, sdkInstance, tracerInstance,
                  initialized, sdkVars, workVars, trace, call, wf, timers>>

InitializeMetricsCalled ==
    /\ metrics.calls < MaxMetricCalls
    /\ metrics' = Noted(initializeMetrics(metrics), "initializeMetrics", "undefined")
    /\ MeterTaken(metrics, metrics')
    /\ UNCHANGED metricsFrame

\* One of the record functions is called; recordServiceError and
\* recordErrorWithType take an error type.
RecordCalled(fn, errorType) ==
    /\ metrics.calls < MaxMetricCalls
    /\ fn \in {"recordServiceError", "recordErrorWithType"}
          \/ errorType = "undefined"
    /\ metrics' = Noted(Record(metrics, fn, errorType), fn, errorType)
    /\ MeterTaken(metrics, metrics')
    /\ UNCHANGED metricsFrame

CleanupCalled ==
    /\ metrics.calls < MaxMetricCalls
    /\ metrics' = Noted(cleanup(metrics), "cleanup", "undefined")
    /\ UNCHANGED <<metricsFrame, meterInstance, created>>

InitMetrics ==
    /\ NoProcess
    /\ call = NoCall
    /\ wf = NoWf
    /\ metrics = NoMetrics
    /\ timers = NoTimers

NextMetrics ==
    \/ InitializeMetricsCalled
    \/ \E fn \in RecordFns, errorType \in ErrorTypes : RecordCalled(fn, errorType)
    \/ CleanupCalled

SpecMetrics == InitMetrics /\ [][NextMetrics]_vars

----------------------------------------------------------------------------
(* The dashboard metrics timers: registerDashboardMetrics() called any     *)
(* number of times, its timers firing, its stop functions called.          *)

\* Calls of registerDashboardMetrics in one process.
MaxRegistrations == 2

\* Calls of emitPeriodicMetrics the timers make.
MaxEmits == 3

\* The record functions emitPeriodicMetrics calls for one workflow type, in
\* order.
EmittedPerType ==
    <<"recordSuccess", "recordFailure", "recordTimeout", "recordTermination",
      "recordCancellation",
      "recordAddActivityTask", "recordRecordActivityTaskStarted",
      "recordResponseActivityCompleted", "recordRespondActivityTaskFailed",
      "recordRespondActivityTaskCanceled", "recordAddWorkflowTask",
      "recordRecordWorkflowTaskStarted", "recordRespondWorkflowTaskCompleted",
      "recordRespondWorkflowTaskFailed", "recordTimerActiveTaskWorkflowTimeout",
      "recordAddActivityTaskError", "recordRecordActivityTaskStartedError",
      "recordRespondActivityTaskCompletedError", "recordValidationError",
      "recordTimeoutError", "recordBusinessRuleError", "recordSystemError",
      "recordScheduleToStartWorkflowTimeout",
      "recordStartToCloseWorkflowTimeout">>

\* The workflow types emitPeriodicMetrics goes through.
WorkflowTypes == <<"HelloWorldWorkflow", "GreetingWorkflow", "ProcessingWorkflow">>

\* The record functions fns called one after the other.  (Comparing calls
\* makes TLC evaluate each call before the next one, which keeps its
\* evaluation stack shallow.)
RECURSIVE RecordAll(_, _)
RecordAll(m, fns) ==
    IF fns = <<>> THEN m
    ELSE LET after == Noted(Record(m, Head(fns), "undefined"), Head(fns), "undefined")
         IN IF after.calls > m.calls THEN RecordAll(after, Tail(fns)) ELSE after

RECURSIVE Times(_, _)
Times(fns, n) == IF n = 0 THEN <<>> ELSE fns \o Times(fns, n - 1)

\* emitPeriodicMetrics(workflowId, runId, namespace).
emitPeriodicMetrics(m) ==
    RecordAll(m, Times(EmittedPerType, Len(WorkflowTypes))
                    \o <<"recordServiceRestart", "recordServiceRestart">>)

\* setTimeout / setInterval: a new armed timer of the registration.
TimerSet(set, kind, reg) == Append(set, [kind |-> kind, reg |-> reg, state |-> "armed"])

\* clearTimeout / clearInterval of a handle: an armed timer no longer fires.
TimerCleared(set, id) ==
    IF id # 0 /\ set[id].state = "armed"
    THEN [set EXCEPT ![id].state = "cleared"]
    ELSE set

\* The call of emitPeriodicMetrics a timer of registration reg makes.
Emitted(reg) == [reg |-> reg, stopped |-> reg \in timers.stopped]

\* registerDashboardMetrics(): records a restart, sets the initial timer and
\* stores its handle in the global.
RegisterDashboardMetricsCalled ==
    /\ timers.registrations < MaxRegistrations
    /\ metrics' = Noted(Record(metrics, "recordServiceRestart", "undefined"),
                        "recordServiceRestart", "undefined")
    /\ MeterTaken(metrics, metrics')
    /\ timers' = [timers EXCEPT
                     !.registrations = @ + 1,
                     !.set = TimerSet(@, "initial", timers.registrations + 1),
                     !.initialTimer = Len(timers.set) + 1]
    /\ UNCHANGED <<cfg, taskVars, nodeVars, sdkInstance, tracerInstance,
                   initialized, sdkVars, workVars, trace, call, wf>>

\* The initial timer t fires: it emits, sets the interval and stores the
\* interval's handle in the global.
InitialTimerFired(t) ==
    /\ t \in DOMAIN timers.set
    /\ timers.set[t].kind = "initial"
    /\ timers.set[t].state = "armed"
    /\ Len(timers.emits) < MaxEmits
    /\ metrics' = emitPeriodicMetrics(metrics)
    /\ MeterTaken(metrics, metrics')
    /\ timers' = [timers EXCEPT
                     !.emits = Append(@, Emitted(timers.set[t].reg)),
                     !.set = TimerSet([@ EXCEPT ![t].state = "fired"],
                                      "interval", timers.set[t].reg),
                     !.interval = Len(timers.set) + 1]
    /\ UNCHANGED <<cfg, taskVars, nodeVars, sdkInstance, tracerInstance,
                   initialized, sdkVars, workVars, trace, call, wf>>

\* The interval t fires: it emits and stays armed.
IntervalFired(t) ==
    /\ t \in DOMAIN timers.set
    /\ timers.set[t].kind = "interval"
    /\ timers.set[t].state = "armed"
    /\ Len(timers.emits) < MaxEmits
    /\ metrics' = emitPeriodicMetrics(metrics)
    /\ MeterTaken(metrics, metrics')
    /\ timers' = [timers EXCEPT !.emits = Append(@, Emitted(timers.set[t].reg))]
    /\ UNCHANGED <<cfg, taskVars, nodeVars, sdkInstance, tracerInstance,
                   initialized, sdkVars, workVars, trace, call, wf>>

\* The function registration reg returned is called: it clears and deletes
\* the handles the globals hold.
StopCalled(reg) ==
    /\ reg \in 1..timers.registrations
    /\ timers' = [timers EXCEPT
                     !.set = TimerCleared(TimerCleared(@, timers.initialTimer),
                                          timers.interval),
                     !.initialTimer = 0,
                     !.interval = 0,
                     !.stopped = @ \cup {reg}]
    /\ UNCHANGED <<procVars, call, wf, metrics>>

InitDashboard ==
    /\ NoProcess
    /\ call = NoCall
    /\ wf = NoWf
    /\ metrics = NoMetrics
    /\ timers = NoTimers

NextDashboard ==
    \/ RegisterDashboardMetricsCalled
    \/ \E t \in 1..(2 * MaxRegistrations) : InitialTimerFired(t)
    \/ \E t \in 1..(2 * MaxRegistrations) : IntervalFired(t)
    \/ \E reg \in 1..MaxRegistrations : StopCalled(reg)

SpecDashboard == InitDashboard /\ [][NextDashboard]_vars

----------------------------------------------------------------------------
(* Claims about the telemetry utilities.                                  *)

\* The races forceSpanExport started with an SDK handle stored.
ExportRaces ==
    {i \in DOMAIN races : races[i].fn = "forceSpanExport" /\ races[i].sd # "none"}

\* C1: with an SDK handle stored, forceSpanExport never rejects; it races
\* sdk.shutdown() against a timer of 5000 ms (first utilities module) or
\* 3000 ms (second module); as soon as either has settled the call has
\* resolved: with false when the timer fired first, otherwise with the
\* outcome of the shutdown (true on success, false on error), and a later
\* settlement of the loser does not change the result.
C1_ForceSpanExportResolves ==
    \A i \in ExportRaces :
        LET r == races[i] IN
        /\ r.result \in {"pending", "true", "false"}
        /\ r.delay = IF cfg.tel = "A" THEN 5000 ELSE 3000
        /\ (r.first = "none") <=> (r.result = "pending")
        /\ (r.first = "none") <=> (r.sd = "pending" /\ r.timer = "armed")
        /\ r.first = "timer" => r.result = "false"
        /\ r.first = "shutdown" =>
              r.result = (IF r.sd = "resolved" THEN "true" ELSE "false")

\* C1 witness: the timer fired first, the shutdown settled afterwards, and
\* the call is resolved with false.
C1_Witness ==
    \E i \in ExportRaces :
        /\ races[i].first = "timer"
        /\ races[i].sd = "resolved"
        /\ races[i].result = "false"

----------------------------------------------------------------------------
(* Claims about the entry points, read off the trace of calls.            *)

\* The functions the worker entry points register for SIGINT, SIGTERM and
\* unhandledRejection.
ShutdownFns == {"shutdown", "onSignal", "onSigint"}

\* The positions of the trace where one of fns made the call e.
CallsBy(fns, e) == {k \in DOMAIN trace : trace[k].by \in fns /\ trace[k].ev = e}

\* How often the span called name was started, and how often ended.
Started(name) ==
    Cardinality({k \in DOMAIN trace :
                    trace[k].ev = "startSpan" /\ trace[k].arg = name})
Ended(name) ==
    Cardinality({k \in DOMAIN trace :
                    trace[k].ev = "span.end" /\ trace[k].arg = name})

SpanNames == {"WorkerExecution", "ExecuteWorkflow", "StartWorkflow",
              "RunWorkflow:HelloWorldWorkflow",
              "StartWorkflow:HelloWorldWorkflow"}

\* Every started span was ended exactly once, no other span was ended.
SpansBalanced == \A n \in SpanNames : Started(n) = Ended(n)

\* C2: in every worker entry point the shutdown path acts at most once,
\* however often it is triggered: the shutdown functions call
\* worker.shutdown() at most once, forceSpanExport() at most once and
\* process.exit() at most once in the life of the process.
C2_ShutdownActsOnce ==
    /\ \A e \in {"worker.shutdown", "forceSpanExport", "process.exit"} :
          Cardinality(CallsBy(ShutdownFns, e)) <= 1
    /\ exit.calls <= 1

\* C3: in every client, when the process has terminated each span that was
\* started has been ended exactly once, whether the workflow completed,
\* failed, or the connection could not be made.
C3_ClientSpansEnded ==
    (cfg.entry \in Clients /\ exit.exited) => SpansBalanced

\* C4: in every worker, when the process has exited through process.exit
\* (after a signal, or after a startup or run error) each span that was
\* started has been ended exactly once.
C4_WorkerSpansEnded ==
    (cfg.entry \in Workers /\ exit.exited /\ exit.calls > 0) => SpansBalanced

\* The workers that export telemetry: through initOpenTelemetry, or
\* through the SDK of instrumentation.ts.
TelemetryWorkers == (Workers \cap UsesInitOpenTelemetry) \cup {WorkerInstr}

\* C5: in a worker that exports telemetry, a shutdown function calls
\* process.exit(0) only after it has called forceSpanExport() and that
\* call's race of flush against timeout has settled, and forceSpanExport()
\* only after worker.shutdown().
C5_ExitAfterFlush ==
    cfg.entry \in TelemetryWorkers =>
        \A k \in CallsBy(ShutdownFns, "process.exit") :
            \E j \in CallsBy({trace[k].by}, "forceSpanExport") :
                /\ j < k
                /\ worker.ref =>
                      \E w \in CallsBy({trace[k].by}, "worker.shutdown") : w < j
                /\ \E r \in DOMAIN races :
                      /\ races[r].fn = "forceSpanExport"
                      /\ races[r].result # "pending"

\* The workflow ran to completion: handle.result() or execute() resolved.
WorkflowCompleted == \E k \in DOMAIN trace : trace[k] = WorkflowResult(TRUE)

\* C6: a client process whose TLS configuration is complete and that has
\* terminated has exit code 0 when the workflow completed and exit code 1
\* otherwise (the connection failed or the workflow failed).
C6_ClientExitCode ==
    (cfg.entry \in Clients /\ ~TlsMissing /\ exit.exited) =>
        exit.code = IF WorkflowCompleted THEN 0 ELSE 1

\* C7: a worker process that has terminated with exit code 0 was shut down
\* by a signal and saw no unhandled promise rejection.
C7_WorkerExitZero ==
    (cfg.entry \in Workers /\ exit.exited /\ exit.code = 0) =>
        /\ signalled
        /\ CallsBy({"node"}, "unhandledRejection") = {}

\* The clients that read TEMPORAL_HOST_URL; the starter connects with the
\* defaults of Connection.connect().
ReadsHostUrl == Clients \ {Starter}

\* C8: with TEMPORAL_HOST_URL set and the certificate or the key missing,
\* a client that reads the variable attempts no connection and starts no
\* workflow, and when it has terminated its exit code is 1.
C8_TlsMissingExitsOne ==
    (cfg.entry \in ReadsHostUrl /\ TlsMissing) =>
        /\ \A k \in DOMAIN trace :
              trace[k].ev \notin {"connect", "workflow.start", "workflow.execute"}
        /\ exit.exited => exit.code = 1

\* C9: once the uncaughtException handler registered by initOpenTelemetry
\* has returned (its race of sdk.shutdown() against the 5000 ms timer has
\* settled), the process has terminated, or nothing is left that keeps it
\* running.
C9_UncaughtHandlerTerminates ==
    \A i \in DOMAIN handlers :
        (handlers[i].fn = "onUncaughtException" /\ handlers[i].pc = "done") =>
            exit.exited \/ ~Alive

\* C10: in an entry point that calls initOpenTelemetry, sdk.shutdown() is
\* invoked only after sdk.start() has completed, and sdk.start() is not
\* invoked after an sdk.shutdown().
C10_LifecycleForward ==
    cfg.entry \in UsesInitOpenTelemetry =>
        \A k \in DOMAIN trace :
            /\ trace[k].ev = "sdk.shutdown" =>
                  \E j \in 1..(k - 1) : trace[j].ev = "sdk.started"
            /\ trace[k].ev = "sdk.start" =>
                  \A j \in 1..(k - 1) : trace[j].ev # "sdk.shutdown"

----------------------------------------------------------------------------
(* Claims about the cached handles of the telemetry utilities.            *)

\* The step completes the SDK shutdown that a shutdownTelemetry() or
\* forceSpanExport() call was waiting for.
CompletesShutdown ==
    \E i \in DOMAIN races :
        /\ races[i].fn \in {"forceSpanExport", "shutdownTelemetry"}
        /\ races[i].sd = "pending"
        /\ i \in DOMAIN races'
        /\ races'[i].sd = "resolved"

\* C11: a cached tracer or meter handle is never replaced by another one
\* (it is created on the first call only and stays until a shutdown
\* clears it), and the step that completes the SDK shutdown started by
\* shutdownTelemetry or forceSpanExport clears the tracer, the meter and
\* the SDK handle, in both variants of the utilities.
C11_HandlesCachedAndCleared ==
    [][/\ (tracerInstance # 0 /\ tracerInstance' # 0)
             => tracerInstance' = tracerInstance
       /\ (meterInstance # 0 /\ meterInstance' # 0)
             => meterInstance' = meterInstance
       /\ CompletesShutdown
             => /\ sdkInstance' = NULL
                /\ tracerInstance' = 0
                /\ meterInstance' = 0]_vars

----------------------------------------------------------------------------
(* Claims about the parsing of key=value strings.                         *)

\* The pair has a '=', and what stands before and after the first one.
HasSeparator(pair) == \E i \in DOMAIN pair : pair[i] = "="
FirstSeparator(pair) ==
    CHOOSE i \in DOMAIN pair : pair[i] = "=" /\ \A h \in 1..(i - 1) : pair[h] # "="
KeyOf(pair) == SubSeq(pair, 1, FirstSeparator(pair) - 1)
FullValueOf(pair) == SubSeq(pair, FirstSeparator(pair) + 1, Len(pair))

\* A well-formed pair: a key, a '=', a value, neither of them blank.
WellFormed(pair) ==
    /\ HasSeparator(pair)
    /\ Trim(KeyOf(pair)) # <<>>
    /\ Trim(FullValueOf(pair)) # <<>>

\* C12: extractKeyValues and getOtelHeaders return a mapping that holds,
\* for every well-formed pair of the input (the last one of each key), the
\* trimmed key mapped to the full trimmed value, everything after the
\* first '=' included; that holds no key other than those of pairs with a
\* '=', a key and a value; and that is empty for the empty string.
C12_KeyValuesParsed ==
    call.fn \in {"extractKeyValues", "getOtelHeaders"} =>
        LET pairs == Split(call.arg.v, ",")
            Key(i) == Trim(KeyOf(pairs[i]))
        IN /\ \A i \in DOMAIN pairs :
                 (/\ WellFormed(pairs[i])
                  /\ \A j \in (i + 1)..Len(pairs) :
                        ~(WellFormed(pairs[j]) /\ Key(j) = Key(i)))
                 => <<Key(i), Trim(FullValueOf(pairs[i]))>> \in call.ret
           /\ \A p \in call.ret :
                 \E i \in DOMAIN pairs :
                    /\ HasSeparator(pairs[i])
                    /\ KeyOf(pairs[i]) # <<>>
                    /\ FullValueOf(pairs[i]) # <<>>
                    /\ Key(i) = p[1]
           /\ call.arg.v = <<>> => call.ret = {}

----------------------------------------------------------------------------
(* Claims about the exporters.                                             *)

ExporterFns ==
    {"initOpenTelemetry", "instrumentation", "cloudInstrumentation",
     "initializeRuntime"}

\* C13: when OTEL_EXPORTER_OTLP_ENDPOINT is not set, every exporter that is
\* constructed is given the endpoint http://localhost:4317.
C13_DefaultEndpoint ==
    (call.fn \in ExporterFns /\ call.arg.v.endpoint = Unset)
        => \A e \in call.ret.exporters : e.url[1] = LocalEndpoint[1]

\* The protocol and headers the user configured.
UserHttp(env) == ToLowerCase(ProtocolOr(env.protocol, "grpc")) \in {"http/json", "http"}
UserHeaders(env) == getOtelHeaders(OrElse(env.headers, <<>>))
PathCount(url) == Cardinality({i \in DOMAIN url : url[i] = TracesPath})

\* C14: the exporters initOpenTelemetry builds follow the configured
\* protocol: with an HTTP protocol they are HTTP exporters whose URL ends
\* with one /v1/traces and which carry the configured headers; otherwise
\* they are gRPC exporters on the endpoint as given, with the same headers.
C14_ExportersFollowProtocol ==
    call.fn = "initOpenTelemetry" =>
        LET env == call.arg.v
            endpoint == OrElse(env.endpoint, LocalEndpoint)
        IN \A e \in call.ret.exporters :
              /\ e.headers = UserHeaders(env)
              /\ IF UserHttp(env)
                 THEN /\ e.kind = "http"
                      /\ e.url[Len(e.url)] = TracesPath
                      /\ PathCount(e.url) = 1
                 ELSE /\ e.kind = "grpc"
                      /\ e.url = endpoint

----------------------------------------------------------------------------
(* Claims about the greetings.                                             *)

\* C15: the simple greeting workflow (sayHello without activities, and
\* greetUser with the sayHello activity) returns 'Hello ', the name and
\* '!', so that the name Temporal gives 'Hello Temporal!'.
C15_SimpleGreeting ==
    (call.fn \in {"sayHello", "greetUser"} /\ call.ret.ok) =>
        LET name == call.arg.v.name
            result == call.ret.value
        IN /\ Len(result) = Len(name) + 7
           /\ SubSeq(result, 1, 6) = <<"H", "e", "l", "l", "o", " ">>
           /\ SubSeq(result, 7, Len(name) + 6) = name
           /\ result[Len(result)] = "!"
           /\ name = Temporal =>
                 result = <<"H", "e", "l", "l", "o", " ",
                            "T", "e", "m", "p", "o", "r", "a", "l", "!">>

C15_Witness ==
    /\ call.fn \in {"sayHello", "greetUser"}
    /\ call.ret.ok
    /\ call.arg.v.name = Temporal

\* result is name without the surrounding blanks, its first character in
\* upper case and the others in lower case.
Formatted(name, result) ==
    LET trimmed == Trim(name)
        first == toUpperCase(CharAt0(trimmed))
        rest == Slice1(trimmed)
    IN /\ Len(result) = Len(first) + Len(rest)
       /\ SubSeq(result, 1, Len(first)) = first
       /\ \A i \in DOMAIN rest :
             result[Len(first) + i] = IF rest[i] \in DOMAIN LowerOf
                                      THEN LowerOf[rest[i]] ELSE rest[i]
       /\ name = PaddedBob => result = <<"B", "o", "b">>

\* C16: formatName returns its input without the surrounding whitespace,
\* the first character in upper case and the others in lower case, and
\* formatting the result again changes nothing.
C16_FormatNameIdempotent ==
    call.fn = "formatName" =>
        /\ Formatted(call.arg.v.name, call.ret)
        /\ formatName(call.ret) = call.ret

\* C16 as amended: the same, with formatting again changing nothing when
\* the upper case of the first character is one character.
C16_FormatNameIdempotentOnSimpleCase ==
    call.fn = "formatName" =>
        /\ Formatted(call.arg.v.name, call.ret)
        /\ Len(toUpperCase(CharAt0(Trim(call.arg.v.name)))) <= 1
              => formatName(call.ret) = call.ret

C16_Witness ==
    /\ call.fn = "formatName"
    /\ call.arg.v.name = <<" ", "b", "B">>
    /\ call.ret = <<"B", "b">>

----------------------------------------------------------------------------
(* Claims about the activity-based workflow.                               *)

\* C17: the activity-based sayHello calls formatName, generateGreeting and
\* addTimestamp in that order, each after the one before has completed and
\* with its result, and returns what addTimestamp returned; once an
\* activity fails no other is called and the failure leaves the workflow.
C17_ActivitiesInOrder ==
    LET log == wf.log
    IN /\ Len(log) <= 2 * Len(Activities)
       /\ \A i \in DOMAIN log :
             IF i % 2 = 1
             THEN /\ log[i].event = "scheduled"
                  /\ log[i].activity = Activities[(i + 1) \div 2]
                  /\ IF i = 1 THEN log[i].value = wf.name
                     ELSE /\ log[i - 1].event = "completed"
                          /\ log[i].value = log[i - 1].value
             ELSE /\ log[i].event \in {"completed", "failed"}
                  /\ log[i].activity = log[i - 1].activity
                  /\ log[i].event = "failed" => i = Len(log)
       /\ wf.out.ok =>
             /\ Len(log) = 2 * Len(Activities)
             /\ log[Len(log)].event = "completed"
             /\ wf.out.value = log[Len(log)].value
       /\ (wf.pc \in {"thrown", "done"} /\ ~wf.out.ok) =>
             /\ log[Len(log)].event = "failed"
             /\ wf.out = Thrown(wf.settled.error)
             /\ wf.out.error \in Errors
       /\ (wf.pc \in {"returned", "thrown", "done"}) =>
             (wf.out.ok <=> log[Len(log)].event = "completed")

C17_Witness ==
    /\ wf.pc = "thrown"
    /\ Len(wf.log) = 4
    /\ wf.log[4] = Logged("generateGreeting", "failed", <<>>)

\* An ISO-8601 timestamp as toISOString writes it:
\* YYYY-MM-DDTHH:mm:ss.sssZ.
IsoSeparators ==
    [i \in {5, 8, 11, 14, 17, 20, 24} |->
        CASE i \in {5, 8} -> "-" [] i = 11 -> "T" [] i \in {14, 17} -> ":"
          [] i = 20 -> "." [] i = 24 -> "Z"]

IsIso(str) ==
    /\ Len(str) = 24
    /\ \A i \in 1..24 :
          IF i \in DOMAIN IsoSeparators THEN str[i] = IsoSeparators[i]
          ELSE \E d \in DOMAIN Digits : str[i] = Digits[d]

\* C18: the result of the activity-based workflow is '[', an ISO-8601
\* timestamp, '] ', one of Hello, Hi, Hey, Greetings, Welcome, ', ', the
\* formatted input name and '!'.
C18_ResultForm ==
    wf.out.ok =>
        LET result == wf.out.value
        IN /\ Len(result) > 26
           /\ result[1] = "["
           /\ IsIso(SubSeq(result, 2, 25))
           /\ result[26] = "]"
           /\ \E g \in DOMAIN Greetings :
                 SubSeq(result, 27, Len(result))
                    = <<" ">> \o Greetings[g] \o <<",", " ">>
                         \o formatName(wf.name) \o <<"!">>

C18_Witness ==
    /\ wf.out.ok
    /\ wf.name = PaddedBob
    /\ SubSeq(wf.out.value, 27, Len(wf.out.value))
          = <<" ", "W", "e", "l", "c", "o", "m", "e", ",", " ", "B", "o", "b", "!">>

----------------------------------------------------------------------------
(* Claims about the workflow metrics.                                      *)

\* The counters a call of fn is to add to.
Targeted(fn, errorType) ==
    IF fn \notin RecordFns THEN {}
    ELSE LET callee == Callee(fn, errorType)
         IN IF callee.fn = "recordServiceError"
            THEN {"service_errors"}
                    \cup (IF Given(callee.errorType)
                          THEN {"service_error_with_type"} ELSE {})
            ELSE {CounterOf[callee.fn]}

\* C19: whatever the order of initializeMetrics, record and cleanup calls,
\* a record call adds exactly 1 to each counter it targets, and no call
\* changes the accumulated value of any other counter: no value is
\* decreased or reset, by cleanup and the initialisation after it either.
C19_CountersOnlyGrow ==
    [][metrics'.calls = metrics.calls + 1 =>
          LET targets == Targeted(metrics'.last.fn, metrics'.last.errorType)
          IN \A c \in CounterNames :
                metrics'.values[c]
                   = metrics.values[c] + (IF c \in targets THEN 1 ELSE 0)]_vars

C19_Witness ==
    /\ metrics.inits = 2
    /\ metrics.last.fn = "recordErrorWithType"
    /\ metrics.values["service_error_with_type"] = 2
    /\ metrics.values["service_errors"] = 2

----------------------------------------------------------------------------
(* Claims about the errors passed on.                                      *)

\* C20: an error of an SDK call reaches the caller as the same error:
\* initOpenTelemetry throws the error of sdk.start(), the interceptor's
\* execute throws the error of next and returns the result of next as it
\* is, and greetUser throws the error of its activity.
C20_ErrorsPassedOn ==
    /\ (call.fn = "sdk.start" /\ ~call.arg.v.start.ok) =>
          call.ret.outcome = Thrown(call.arg.v.start.error)
    /\ call.fn = "execute" => call.ret = call.arg.v
    /\ (call.fn = "greetUser" /\ call.arg.v.fails # "none") =>
          call.ret = Thrown(call.arg.v.fails)

C20_Witness ==
    /\ call.fn = "execute"
    /\ call.arg.v = Thrown("TimeoutFailure")
    /\ ~call.ret.ok

----------------------------------------------------------------------------
(* Claims about the shutdown of the entry points.                          *)

\* The step delivers a signal to the process.
SignalDelivered ==
    /\ Len(trace') = Len(trace) + 1
    /\ trace'[Len(trace')].by = "os"

\* The handlers the step has invoked.
Invoked == {handlers'[i].fn : i \in DOMAIN handlers' \ DOMAIN handlers}

\* C21: in the dashboard-metrics worker a SIGINT or SIGTERM delivered while
\* worker.run() is in progress starts the clean-shutdown sequence (worker
\* shutdown, stopDashboardMetrics, metrics cleanup, forceSpanExport, span
\* end, process.exit(0)): the handler that runs the sequence is invoked.
C21_SignalDuringRunShutsDown ==
    [][(cfg.entry \in DashboardWorkers /\ mainPc = "awaitRun" /\ SignalDelivered)
          => "onSigint" \in Invoked]_vars

\* C22: on every shutdown path of every entry point each span is ended
\* before forceSpanExport, which shuts the SDK down, is invoked: no
\* function ends a span after it has called forceSpanExport.
C22_SpansEndBeforeFlush ==
    \A k \in DOMAIN trace :
        trace[k].ev = "span.end" =>
            \A j \in 1..(k - 1) :
                ~(trace[j].ev = "forceSpanExport" /\ trace[j].by = trace[k].by)

\* C23: on every error path of a worker that exports telemetry (TLS or
\* configuration error, connection failure, failure of Worker.create or of
\* worker.run()) the flush or the SDK shutdown has been attempted, and has
\* settled or timed out, before run() calls process.exit(1).
C23_ErrorExitAfterFlush ==
    cfg.entry \in TelemetryWorkers =>
        \A k \in DOMAIN trace :
            trace[k] = Ev("run", "process.exit", "1") =>
                /\ \E j \in 1..(k - 1) :
                      trace[j].ev \in {"forceSpanExport", "sdk.shutdown"}
                /\ \E r \in DOMAIN races : races[r].result # "pending"

\* C24: in a client whose telemetry initialisation succeeded, run() has
\* called forceSpanExport exactly once when the process has ended, and
\* after it ended the StartWorkflow span, on the success path and on
\* every failure path.
C24_ClientFlushesOnce ==
    (/\ cfg.entry \in Clients \cap UsesInitOpenTelemetry
     /\ \E k \in DOMAIN trace : trace[k].ev = "sdk.started"
     /\ exit.exited) =>
        /\ Cardinality(CallsBy({"run"}, "forceSpanExport")) = 1
        /\ \A j \in CallsBy({"run"}, "forceSpanExport") :
              \E k \in 1..(j - 1) : trace[k] = SpanEnd("run", "StartWorkflow")

\* C25: the process builds one SDK, and sdk.shutdown() is invoked on it at
\* most once, however the handlers of the telemetry bootstrap, the signal
\* handlers of the worker and the calls of forceSpanExport interleave.
C25_SdkShutdownOnce ==
    Cardinality({k \in DOMAIN trace : trace[k].ev = "sdk.shutdown"}) <= 1

----------------------------------------------------------------------------
(* Claims about shutdownTelemetry.                                         *)

\* The step is a call of shutdownTelemetry().
ShutdownTelemetryCalled ==
    /\ Len(trace') > Len(trace)
    /\ trace'[Len(trace) + 1] = Ev("caller", "shutdownTelemetry", "")

\* The calls of shutdownTelemetry whose sdk.shutdown() the step settles.
SettlesFor(sd) ==
    {i \in DOMAIN races : /\ races[i].fn = "shutdownTelemetry"
                          /\ races[i].sd = "pending"
                          /\ races'[i].sd = sd}

\* C26: shutdownTelemetry never propagates an error: without a stored SDK
\* it returns and changes nothing; when sdk.shutdown() rejects the error is
\* swallowed and sdkInstance, tracerInstance, meterInstance and
\* initialized keep their values; a successful shutdown, and nothing
\* else, clears the four.
C26_ShutdownTelemetrySwallows ==
    [][/\ (ShutdownTelemetryCalled /\ sdkInstance = NULL)
             => UNCHANGED <<utilsVars, sdkVars>>
       /\ \A i \in SettlesFor("rejected") :
             /\ races'[i].result = "swallowed"
             /\ UNCHANGED <<sdkInstance, tracerInstance, meterInstance, initialized>>
       /\ \A i \in SettlesFor("resolved") :
             /\ races'[i].result = "resolved"
             /\ sdkInstance' = NULL
             /\ tracerInstance' = 0
             /\ meterInstance' = 0
             /\ initialized' = FALSE
       /\ (sdkInstance # NULL /\ sdkInstance' = NULL)
             => \E i \in DOMAIN races :
                   races[i].sd = "pending" /\ races'[i].sd = "resolved"]_vars

C26_Witness ==
    /\ sdkInstance # NULL
    /\ tracerInstance # 0
    /\ \E i \in DOMAIN races :
          /\ races[i].fn = "shutdownTelemetry"
          /\ races[i].sd = "rejected"
          /\ races[i].result = "swallowed"


----------------------------------------------------------------------------
(* Claims about the environment the entry points leave.                    *)

\* s begins with the sequence p.
BeginsWith(s, p) == Len(s) >= Len(p) /\ SubSeq(s, 1, Len(p)) = p

\* C30: an OTEL_EXPORTER_OTLP_ENDPOINT or OTEL_EXPORTER_OTLP_PROTOCOL that
\* is set when the process starts has the same value after run() of any
\* entry point has called initOpenTelemetry, and the exporters are built
\* on that endpoint; a default takes the place of an absent value only.
C30_SetVariablesKept ==
    call.fn = "run" =>
        LET env == call.arg.v
        IN /\ env.endpoint \notin {Unset, <<>>} =>
                 /\ call.ret.env.endpoint = env.endpoint
                 /\ \A e \in call.ret.exporters : BeginsWith(e.url, env.endpoint)
           /\ env.protocol \notin {"unset", ""} =>
                 call.ret.env.protocol = env.protocol

----------------------------------------------------------------------------
(* Claims about the counters of the clients.                               *)

\* The adds run() has made to its start counter or its completion counter.
Adds(counter) == {k \in DOMAIN trace : trace[k] = CounterAdded(counter)}

\* C29: once run() of the starter or of the dashboard client has reached
\* the end of its StartWorkflow span, it has added to its completion
\* counter as often as to its start counter: once for each workflow it
\* started, whether the workflow completed or failed.
C29_CompletionsMatchStarts ==
    (/\ cfg.entry \in {Starter, ClientDashboard}
     /\ \E k \in DOMAIN trace : trace[k] = SpanEnd("run", "StartWorkflow")) =>
        Cardinality(Adds("completed")) = Cardinality(Adds("started"))

----------------------------------------------------------------------------
(* Claims about the state of the workflow metrics module.                  *)

\* A call of a record function, made while the module is not initialised.
RecordedUninitialized ==
    /\ ~metrics.initialized
    /\ metrics'.calls = metrics.calls + 1
    /\ metrics'.last.fn \in RecordFns

\* C28: before and after every call of initializeMetrics, a record function
\* or cleanup, the initialized flag is true exactly when all eleven counter
\* references are set; and a record call made while the module is not
\* initialised (before initializeMetrics, or after cleanup) creates all the
\* counters again and then adds its increment to each counter it targets.
C28_FlagMatchesHandles ==
    [][/\ metrics.initialized <=> metrics.refs = CounterNames
       /\ metrics'.initialized <=> metrics'.refs = CounterNames
       /\ RecordedUninitialized =>
              /\ metrics'.initialized
              /\ metrics'.inits = metrics.inits + 1
              /\ \A c \in Targeted(metrics'.last.fn, metrics'.last.errorType) :
                     metrics'.values[c] = metrics.values[c] + 1]_vars

\* A record call after a cleanup has created the counters a second time
\* and counted.
C28_Witness ==
    /\ metrics.inits = 2
    /\ metrics.initialized
    /\ metrics.refs = CounterNames
    /\ metrics.last.fn = "recordSuccess"
    /\ metrics.values["workflow_success"] = 2

----------------------------------------------------------------------------
(* Claims about the dashboard metrics timers.                              *)

\* C27: once the stop function a registration returned has been called,
\* that registration's timers never call emitPeriodicMetrics again: no
\* emission is made by a timer of a registration already stopped.
C27_StoppedRegistrationSilent ==
    \A k \in DOMAIN timers.emits : ~timers.emits[k].stopped

====
